---- MODULE Spec2Model ----
(***************************************************************************)
(* State-machine model of the gravity_engine crate: SimulationEngine and   *)
(* the numerical kernel it drives (solver, integrator, collision stage).   *)
(*                                                                         *)
(* f64 values are modelled on a fixed-point grid: the integer v stands for *)
(* the real v / One.  Values beyond FMax overflow to the infinities, as    *)
(* f64 does beyond f64::MAX, and NaN is a value of its own that poisons    *)
(* arithmetic and makes every comparison false.                            *)
(***************************************************************************)
EXTENDS Integers, Sequences, FiniteSets, TLC

\* ------------------------------------------------------------------ f64
One == 100
FMax == 40000
PosInf == FMax + 1
NegInf == 0 - (FMax + 1)
NaN == FMax + 2

IsNaN(a) == a = NaN
IsFinite(a) == a >= 0 - FMax /\ a <= FMax
Abs(a) == IF a < 0 THEN 0 - a ELSE a
Sign(a) == IF a < 0 THEN 0 - 1 ELSE IF a > 0 THEN 1 ELSE 0

\* rounding of an exact result to the grid: overflow gives an infinity
Overflow(r) == IF r > FMax THEN PosInf ELSE IF r < 0 - FMax THEN NegInf ELSE r
\* integer quotient rounded toward zero
TruncDiv(a, b) == Sign(a) * Sign(b) * (Abs(a) \div Abs(b))

FNeg[a \in Int] == IF a = NaN THEN NaN ELSE 0 - a

FAdd[a \in Int, b \in Int] ==
    IF a = NaN \/ b = NaN THEN NaN
    ELSE CASE IsFinite(a) /\ IsFinite(b) -> Overflow(a + b)
           [] IsFinite(b) -> a
           [] IsFinite(a) -> b
           [] OTHER -> IF a = b THEN a ELSE NaN

FSub[a \in Int, b \in Int] ==
    IF a = NaN \/ b = NaN THEN NaN
    ELSE CASE IsFinite(a) /\ IsFinite(b) -> Overflow(a - b)
           [] IsFinite(b) -> a
           [] IsFinite(a) -> 0 - b
           [] OTHER -> IF a = 0 - b THEN a ELSE NaN

FMul[a \in Int, b \in Int] ==
    IF a = NaN \/ b = NaN THEN NaN
    ELSE CASE IsFinite(a) /\ IsFinite(b) -> Overflow(TruncDiv(a * b, One))
           [] a = 0 \/ b = 0 -> NaN
           [] OTHER -> IF Sign(a) * Sign(b) > 0 THEN PosInf ELSE NegInf

\* a zero divisor stands for +0.0
FDiv[a \in Int, b \in Int] ==
    IF a = NaN \/ b = NaN THEN NaN
    ELSE CASE IsFinite(a) /\ IsFinite(b) /\ b # 0 -> Overflow(TruncDiv(a * One, b))
           [] ~IsFinite(a) /\ ~IsFinite(b) -> NaN
           [] ~IsFinite(a) -> IF Sign(a) * (IF b < 0 THEN 0 - 1 ELSE 1) > 0
                              THEN PosInf ELSE NegInf
           [] ~IsFinite(b) -> 0
           [] a = 0 -> NaN
           [] OTHER -> IF a > 0 THEN PosInf ELSE NegInf

\* comparisons: false as soon as one side is NaN
FGt[a \in Int, b \in Int] == a # NaN /\ b # NaN /\ a > b
FGe[a \in Int, b \in Int] == a # NaN /\ b # NaN /\ a >= b
FLt[a \in Int, b \in Int] == a # NaN /\ b # NaN /\ a < b
FLe[a \in Int, b \in Int] == a # NaN /\ b # NaN /\ a <= b

\* f64::max / f64::min: a NaN operand is ignored in favour of the other
F64Max[a \in Int, b \in Int] == IF a = NaN THEN b ELSE IF b = NaN THEN a ELSE IF a >= b THEN a ELSE b
F64Min[a \in Int, b \in Int] == IF a = NaN THEN b ELSE IF b = NaN THEN a ELSE IF a <= b THEN a ELSE b
F64Abs[a \in Int] == IF a = NaN THEN NaN ELSE Abs(a)

\* f64::clamp: NaN stays NaN
F64Clamp[a \in Int, lo \in Int, hi \in Int] ==
    IF a = NaN THEN NaN ELSE IF a < lo THEN lo ELSE IF a > hi THEN hi ELSE a

\* the largest d in 0..15 with (r + d * w)^2 <= n
SqrtDigit(n, r, w) ==
    CHOOSE d \in 0..15 :
        /\ (r + d * w) * (r + d * w) <= n
        /\ (d = 15 \/ (r + (d + 1) * w) * (r + (d + 1) * w) > n)

\* the integer square root of n < 4096^2, one hexadecimal digit at a time
ISqrt(n) ==
    LET r2 == 256 * SqrtDigit(n, 0, 256)
        r1 == r2 + 16 * SqrtDigit(n, r2, 16)
    IN  r1 + SqrtDigit(n, r1, 1)

\* f64::sqrt on the grid: sqrt(v / One) * One = sqrt(v * One), rounded down
FSqrt[a \in Int] ==
    IF a = NaN \/ a < 0 THEN NaN
    ELSE IF a = PosInf THEN PosInf
    ELSE ISqrt(a * One)

\* f64::recip
FRecip[a \in Int] == FDiv[One, a]

\* ------------------------------------------------------------------ Vec2
Vec(x, y) == [x |-> x, y |-> y]
Vec2 == [x : Int, y : Int]
ZERO == Vec(0, 0)

VAdd[a \in Vec2, b \in Vec2] == [x |-> FAdd[a.x, b.x], y |-> FAdd[a.y, b.y]]
VSub[a \in Vec2, b \in Vec2] == [x |-> FSub[a.x, b.x], y |-> FSub[a.y, b.y]]
VMul[a \in Vec2, k \in Int] == [x |-> FMul[a.x, k], y |-> FMul[a.y, k]]
VDiv[a \in Vec2, k \in Int] == [x |-> FDiv[a.x, k], y |-> FDiv[a.y, k]]
dot[a \in Vec2, b \in Vec2] == FAdd[FMul[a.x, b.x], FMul[a.y, b.y]]
norm_squared[a \in Vec2] == dot[a, a]
norm[a \in Vec2] == FSqrt[norm_squared[a]]
VecIsFinite(a) == IsFinite(a.x) /\ IsFinite(a.y)

\* ------------------------------------------------------------------ strings
\* a string is the sequence of its characters
RECURSIVE TrimStart(_)
TrimStart(s) == IF s # <<>> /\ Head(s) = " " THEN TrimStart(Tail(s)) ELSE s

RECURSIVE TrimEnd(_)
TrimEnd(s) ==
    IF s # <<>> /\ s[Len(s)] = " " THEN TrimEnd(SubSeq(s, 1, Len(s) - 1)) ELSE s

Trim(s) == TrimEnd(TrimStart(s))
StartsWith(s, c) == s # <<>> /\ Head(s) = c

\* Option<T>: <<>> is None, <<v>> is Some(v)
None == <<>>
Some(v) == <<v>>
IsSome(o) == o # <<>>
Unwrap(o) == o[1]

\* ------------------------------------------------------------------ Body
NewBody(id, mass, radius, position, velocity) ==
    [id |-> id, mass |-> mass, radius |-> radius, position |-> position,
     velocity |-> velocity, alive |-> TRUE, metadata |-> None]

\* Body::validate: "ok" or the error kind
BodyValidate(b) ==
    IF Trim(b.id) = <<>> THEN "InvalidBody"
    ELSE IF ~IsFinite(b.mass) \/ FLe[b.mass, 0] THEN "InvalidBody"
    ELSE IF ~IsFinite(b.radius) \/ FLe[b.radius, 0] THEN "InvalidBody"
    ELSE IF ~VecIsFinite(b.position) THEN "InvalidBody"
    ELSE IF ~VecIsFinite(b.velocity) THEN "InvalidBody"
    ELSE "ok"

\* ------------------------------------------------------------------ EngineConfig
\* EngineConfig::validate: "ok" or the error kind
ConfigValidate(c) ==
    IF ~IsFinite(c.gravity_constant) \/ FLe[c.gravity_constant, 0] THEN "InvalidConfig"
    ELSE IF ~IsFinite(c.softening_epsilon) \/ FLt[c.softening_epsilon, 0] THEN "InvalidConfig"
    ELSE IF ~IsFinite(c.dt) \/ FLe[c.dt, 0] THEN "InvalidConfig"
    ELSE IF c.deterministic /\ c.dt_policy = "Adaptive" THEN "InvalidConfig"
    ELSE IF ~IsFinite(c.barnes_hut_theta) \/ FLe[c.barnes_hut_theta, 0]
            \/ FGt[c.barnes_hut_theta, 2 * One] THEN "InvalidConfig"
    ELSE IF c.barnes_hut_threshold = 0 THEN "InvalidConfig"
    ELSE "ok"

\* EngineConfig::stable_hash: DefaultHasher::new() has fixed keys, so the digest
\* is a function of the ten hashed fields, in the order they are fed
stable_hash(c) ==
    <<c.integrator, c.collision_mode, c.dt_policy, c.deterministic, c.gravity_solver,
      c.barnes_hut_threshold, c.gravity_constant, c.softening_epsilon, c.dt,
      c.barnes_hut_theta>>

\* ------------------------------------------------------------------ solver
\* Iterator::collect: the sequence with every element computed
Collect(f) == f \o <<>>

\* a faulty count of the alive bodies: every stored body is counted
AliveCountOfAll(bodies) == Len(bodies)

AliveCount(bodies) == Cardinality({i \in DOMAIN bodies : bodies[i].alive})

\* a faulty choose_runtime_mode: Auto takes Barnes-Hut only above the threshold
choose_runtime_mode_above(alive_count, config) ==
    CASE config.gravity_solver = "Pairwise" -> "Pairwise"
      [] config.gravity_solver = "BarnesHut" ->
            IF alive_count >= 2 THEN "BarnesHut" ELSE "Pairwise"
      [] OTHER ->
            IF alive_count > config.barnes_hut_threshold THEN "BarnesHut" ELSE "Pairwise"

\* choose_runtime_mode
choose_runtime_mode(alive_count, config) ==
    CASE config.gravity_solver = "Pairwise" -> "Pairwise"
      [] config.gravity_solver = "BarnesHut" ->
            IF alive_count >= 2 THEN "BarnesHut" ELSE "Pairwise"
      [] OTHER ->
            IF alive_count >= config.barnes_hut_threshold THEN "BarnesHut" ELSE "Pairwise"

\* the body of the inner loop of pairwise_accelerations_from_positions on the
\* alive pair i < j
PairwisePair(bodies, positions, gravity_constant, epsilon2, accelerations, i, j) ==
    LET delta == VSub[positions[j], positions[i]]
        dist_sq == FAdd[norm_squared[delta], epsilon2]
        inv_dist == FRecip[FSqrt[dist_sq]]
        inv_dist3 == FMul[FMul[inv_dist, inv_dist], inv_dist]
        scale == FMul[gravity_constant, inv_dist3]
    IN  IF FLe[dist_sq, 0] THEN accelerations
        ELSE [accelerations EXCEPT
                ![i] = VAdd[@, VMul[delta, FMul[scale, bodies[j].mass]]],
                ![j] = VSub[@, VMul[delta, FMul[scale, bodies[i].mass]]]]

RECURSIVE PairwiseLoop(_, _, _, _, _)
\* the two nested loops of pairwise_accelerations_from_positions; at is the
\* pair (i, j) the loops stand at and the accelerations summed so far
PairwiseLoop(bodies, positions, gravity_constant, epsilon2, at) ==
    CASE at.i > Len(bodies) -> at.accelerations
      [] ~bodies[at.i].alive \/ at.j > Len(bodies) ->
            PairwiseLoop(bodies, positions, gravity_constant, epsilon2,
                         [at EXCEPT !.i = @ + 1, !.j = at.i + 2])
      [] ~bodies[at.j].alive ->
            PairwiseLoop(bodies, positions, gravity_constant, epsilon2,
                         [at EXCEPT !.j = @ + 1])
      [] OTHER ->
            PairwiseLoop(bodies, positions, gravity_constant, epsilon2,
                         [i |-> at.i, j |-> at.j + 1,
                          accelerations |->
                              PairwisePair(bodies, positions, gravity_constant,
                                           epsilon2, at.accelerations, at.i, at.j)])

\* pairwise_accelerations_from_positions
pairwise_accelerations_from_positions(bodies, positions, gravity_constant, softening_epsilon) ==
    PairwiseLoop(bodies, positions, gravity_constant,
                 FMul[softening_epsilon, softening_epsilon],
                 [i |-> 1, j |-> 2,
                  accelerations |-> Collect([k \in 1..Len(bodies) |-> ZERO])])

\* ---- Barnes-Hut quadtree
\* The literals 1e-6 and 1e-9 lie below the grid's resolution; each keeps its role
\* as a positive floor and is the smallest positive grid value, and 1e-18, the
\* square of 1e-9, rounds to 0.
Micro == 1
Nano == 1
SameSpotSq == 0

\* QuadNode::new; children holds the four Option<Box<QuadNode>> slots
QuadNodeNew(center, half_size) ==
    [center |-> center, half_size |-> half_size, mass |-> 0, com |-> ZERO,
     count |-> 0, body_index |-> None, children |-> <<None, None, None, None>>]

is_leaf(node) == node.children = <<None, None, None, None>>

\* QuadNode::child_index, 0..3
child_index(node, position) ==
    (IF FGe[position.x, node.center.x] THEN 1 ELSE 0)
    + (IF FGe[position.y, node.center.y] THEN 2 ELSE 0)

child_center(center, child_half, index) ==
    LET x_offset == IF index % 2 = 0 THEN FNeg[child_half] ELSE child_half
        y_offset == IF index < 2 THEN FNeg[child_half] ELSE child_half
    IN  Vec(FAdd[center.x, x_offset], FAdd[center.y, y_offset])

ChildNew(node, child_half, index) ==
    Some(QuadNodeNew(child_center(node.center, child_half, index), child_half))

ensure_children(node) ==
    IF ~is_leaf(node) THEN node
    ELSE LET child_half == FMul[node.half_size, One \div 2]
         IN  [node EXCEPT !.children =
                <<ChildNew(node, child_half, 0), ChildNew(node, child_half, 1),
                  ChildNew(node, child_half, 2), ChildNew(node, child_half, 3)>>]

\* a faulty head of insert: the node takes the mass in and leaves count as it was
AbsorbUncounted(node, position, mass) ==
    [node EXCEPT
       !.com = IF FGt[FAdd[node.mass, mass], 0]
               THEN VDiv[VAdd[VMul[@, node.mass], VMul[position, mass]],
                         FAdd[node.mass, mass]]
               ELSE @,
       !.mass = FAdd[node.mass, mass]]

\* the head of insert on a node that already holds a body: mass, centre of
\* mass and count take the new body in
Absorb(node, position, mass) ==
    LET previous_mass == node.mass
        next_mass == FAdd[previous_mass, mass]
    IN  [node EXCEPT
           !.com = IF FGt[next_mass, 0]
                   THEN VDiv[VAdd[VMul[@, previous_mass], VMul[position, mass]],
                             next_mass]
                   ELSE @,
           !.mass = next_mass,
           !.count = @ + 1]

RECURSIVE insert(_, _, _, _, _)
RECURSIVE insert_into_child(_, _, _, _, _)
RECURSIVE InsertBelow(_, _, _, _, _)
RECURSIVE InsertAtChild(_, _, _, _, _)

\* QuadNode::insert from `if self.is_leaf()` on; node has absorbed the body
InsertBelow(node, index, positions, masses, min_half) ==
    LET existing_index == Unwrap(node.body_index)
        same_spot ==
            FLe[norm_squared[VSub[positions[existing_index], positions[index]]],
                SameSpotSq]
    IN  CASE ~is_leaf(node) ->
                insert_into_child(node, index, positions, masses, min_half)
          [] ~IsSome(node.body_index) -> node
          [] FLe[node.half_size, min_half] \/ same_spot ->
                [node EXCEPT !.body_index = None]
          [] OTHER ->
                insert_into_child(
                    insert_into_child(ensure_children([node EXCEPT !.body_index = None]),
                                      existing_index, positions, masses, min_half),
                    index, positions, masses, min_half)

\* QuadNode::insert_into_child from `let child_index` on; node has its children
InsertAtChild(node, index, positions, masses, min_half) ==
    LET slot == child_index(node, positions[index]) + 1
    IN  IF IsSome(node.children[slot])
        THEN [node EXCEPT !.children[slot] =
                Some(insert(Unwrap(@), index, positions, masses, min_half))]
        ELSE node

\* QuadNode::insert
insert(node, index, positions, masses, min_half) ==
    IF node.count = 0
    THEN [node EXCEPT !.count = 1, !.mass = masses[index],
                      !.com = positions[index], !.body_index = Some(index)]
    ELSE InsertBelow(Absorb(node, positions[index], masses[index]), index,
                     positions, masses, min_half)

\* QuadNode::insert_into_child
insert_into_child(node, index, positions, masses, min_half) ==
    InsertAtChild(IF is_leaf(node) THEN ensure_children(node) ELSE node, index,
                  positions, masses, min_half)

RECURSIVE BoundsOf(_, _, _)
\* the min/max loop of build_quadtree; box holds the four extremes so far and
\* k, the place in alive_indices the loop stands at
BoundsOf(positions, alive_indices, box) ==
    IF box.k > Len(alive_indices) THEN box
    ELSE BoundsOf(positions, alive_indices,
             [k |-> box.k + 1,
              min_x |-> F64Min[box.min_x, positions[alive_indices[box.k]].x],
              max_x |-> F64Max[box.max_x, positions[alive_indices[box.k]].x],
              min_y |-> F64Min[box.min_y, positions[alive_indices[box.k]].y],
              max_y |-> F64Max[box.max_y, positions[alive_indices[box.k]].y]])

RECURSIVE InsertAll(_, _, _, _, _)
\* the insertion loop of build_quadtree; at holds the root so far and k
InsertAll(positions, alive_indices, masses, min_half, at) ==
    IF at.k > Len(alive_indices) THEN at.root
    ELSE InsertAll(positions, alive_indices, masses, min_half,
             [k |-> at.k + 1,
              root |-> insert(at.root, alive_indices[at.k], positions, masses,
                              min_half)])

\* build_quadtree after its min/max loop: the root cell around the box and the
\* insertion loop
QuadtreeIn(positions, alive_indices, masses, box) ==
    LET span == F64Max[F64Max[F64Abs[FSub[box.max_x, box.min_x]],
                              F64Abs[FSub[box.max_y, box.min_y]]], Micro]
        half_size == FAdd[FMul[One \div 2, span], Micro]
        center == Vec(FMul[One \div 2, FAdd[box.min_x, box.max_x]],
                      FMul[One \div 2, FAdd[box.min_y, box.max_y]])
        min_half == F64Max[FMul[half_size, Micro], Nano]
    IN  Some(InsertAll(positions, alive_indices, masses, min_half,
                       [k |-> 1, root |-> QuadNodeNew(center, half_size)]))

\* build_quadtree: None for no alive body, else Some(root)
build_quadtree(positions, alive_indices, masses) ==
    IF alive_indices = <<>> THEN None
    ELSE QuadtreeIn(positions, alive_indices, masses,
                    BoundsOf(positions, alive_indices,
                             [k |-> 1, min_x |-> PosInf, max_x |-> NegInf,
                              min_y |-> PosInf, max_y |-> NegInf]))

RECURSIVE accumulate_force_from_node(_, _, _, _, _, _)
\* accumulate_force_from_node: the vectors the call adds to out_acceleration, in
\* the order it adds them
accumulate_force_from_node(node, body_index, body_position, gravity_constant, epsilon2, theta) ==
    LET delta == VSub[node.com, body_position]
        dist_sq == FAdd[norm_squared[delta], epsilon2]
        distance == FSqrt[dist_sq]
        size == FMul[node.half_size, 2 * One]
        inv_dist == FRecip[distance]
        inv_dist3 == FMul[FMul[inv_dist, inv_dist], inv_dist]
        \* one round of the loop over node.children.iter().flatten()
        FromChild(k) ==
            IF IsSome(node.children[k])
            THEN accumulate_force_from_node(Unwrap(node.children[k]), body_index,
                     body_position, gravity_constant, epsilon2, theta)
            ELSE <<>>
    IN  CASE node.count = 0 \/ FLe[node.mass, 0] -> <<>>
          [] node.count = 1 /\ node.body_index = Some(body_index) -> <<>>
          [] FLe[dist_sq, 0] -> <<>>
          [] is_leaf(node) \/ FLt[FDiv[size, distance], theta] ->
                <<VMul[delta, FMul[FMul[gravity_constant, node.mass], inv_dist3]]>>
          [] OTHER -> FromChild(1) \o FromChild(2) \o FromChild(3) \o FromChild(4)

RECURSIVE SumInto(_, _)
\* out_acceleration after the additions, made one after the other
SumInto(out_acceleration, addends) ==
    IF addends = <<>> THEN out_acceleration
    ELSE SumInto(VAdd[out_acceleration, Head(addends)], Tail(addends))

\* the indices of the alive bodies, in stored order
AliveIndices(bodies) ==
    LET IsAliveAt(k) == bodies[k].alive
    IN  SelectSeq(Collect([k \in 1..Len(bodies) |-> k]), IsAliveAt)

\* barnes_hut_accelerations_from_positions from `let Some(root) = ...` on
ForcesFrom(bodies, positions, gravity_constant, epsilon2, theta, tree) ==
    IF tree = None THEN Collect([k \in 1..Len(bodies) |-> ZERO])
    ELSE Collect([k \in 1..Len(bodies) |->
            IF bodies[k].alive
            THEN SumInto(ZERO,
                     accumulate_force_from_node(Unwrap(tree), k, positions[k],
                         gravity_constant, epsilon2, theta))
            ELSE ZERO])

\* barnes_hut_accelerations_from_positions
barnes_hut_accelerations_from_positions(bodies, positions, gravity_constant, softening_epsilon, theta) ==
    LET alive_indices == AliveIndices(bodies)
    IN  IF Len(alive_indices) < 2 THEN Collect([k \in 1..Len(bodies) |-> ZERO])
        ELSE ForcesFrom(bodies, positions, gravity_constant,
                        FMul[softening_epsilon, softening_epsilon], theta,
                        build_quadtree(positions, alive_indices,
                            Collect([k \in 1..Len(bodies) |-> bodies[k].mass])))

\* compute_accelerations_with_config: the accelerations and SolverStats.mode
compute_accelerations_with_config(bodies, positions, config) ==
    LET mode == choose_runtime_mode(AliveCount(bodies), config)
    IN  IF mode = "Pairwise"
        THEN [accelerations |->
                pairwise_accelerations_from_positions(bodies, positions,
                    config.gravity_constant, config.softening_epsilon),
              mode |-> "Pairwise"]
        ELSE [accelerations |->
                barnes_hut_accelerations_from_positions(bodies, positions,
                    config.gravity_constant, config.softening_epsilon,
                    config.barnes_hut_theta),
              mode |-> "BarnesHut"]

\* compute_accelerations
compute_accelerations(bodies, config) ==
    compute_accelerations_with_config(bodies,
        Collect([k \in 1..Len(bodies) |-> bodies[k].position]), config)

\* ------------------------------------------------------------------ integrator
RECURSIVE MaxSpeedFrom(_, _)
\* the max_speed loop of effective_dt; at holds max_speed so far and k
MaxSpeedFrom(bodies, at) ==
    CASE at.k > Len(bodies) -> at.max_speed
      [] ~bodies[at.k].alive -> MaxSpeedFrom(bodies, [at EXCEPT !.k = @ + 1])
      [] OTHER ->
            MaxSpeedFrom(bodies,
                [k |-> at.k + 1,
                 max_speed |-> F64Max[at.max_speed, norm[bodies[at.k].velocity]]])

\* the body of the inner min_distance loop of effective_dt on the alive pair
MinDistancePair(bodies, min_distance, i, j) ==
    LET distance == norm[VSub[bodies[j].position, bodies[i].position]]
    IN  IF FGt[distance, 0] THEN F64Min[min_distance, distance] ELSE min_distance

RECURSIVE MinDistanceFrom(_, _)
\* the min_distance loops of effective_dt; at holds min_distance so far and
\* the pair (i, j)
MinDistanceFrom(bodies, at) ==
    CASE at.i > Len(bodies) -> at.min_distance
      [] ~bodies[at.i].alive \/ at.j > Len(bodies) ->
            MinDistanceFrom(bodies, [at EXCEPT !.i = @ + 1, !.j = at.i + 2])
      [] ~bodies[at.j].alive -> MinDistanceFrom(bodies, [at EXCEPT !.j = @ + 1])
      [] OTHER ->
            MinDistanceFrom(bodies,
                [i |-> at.i, j |-> at.j + 1,
                 min_distance |-> MinDistancePair(bodies, at.min_distance, at.i, at.j)])

\* effective_dt
effective_dt(bodies, config) ==
    IF config.dt_policy # "Adaptive" THEN config.dt
    ELSE LET max_speed == MaxSpeedFrom(bodies, [k |-> 1, max_speed |-> 0])
             min_distance == MinDistanceFrom(bodies,
                                 [i |-> 1, j |-> 2, min_distance |-> PosInf])
         IN  IF ~IsFinite(min_distance) \/ max_speed = 0 THEN config.dt
             ELSE F64Clamp[FDiv[FMul[One \div 20, min_distance], max_speed],
                           FMul[config.dt, One \div 20], config.dt]

\* ensure_finite_body: TRUE for Ok
ensure_finite_body(body) == VecIsFinite(body.position) /\ VecIsFinite(body.velocity)

RECURSIVE CommitLoop(_, _, _)
\* the commit loop the three integrators share: alive bodies are overwritten in
\* stored order, and the first non-finite one ends the loop with Err after it
\* has been written
CommitLoop(bodies, updated, k) ==
    CASE k > Len(bodies) -> [bodies |-> bodies, ok |-> TRUE]
      [] ~bodies[k].alive -> CommitLoop(bodies, updated, k + 1)
      [] ensure_finite_body(updated[k]) ->
            CommitLoop([bodies EXCEPT ![k] = updated[k]], updated, k + 1)
      [] OTHER -> [bodies |-> [bodies EXCEPT ![k] = updated[k]], ok |-> FALSE]

\* a faulty return of an integrator: the solver mode is not reported
CommittedAsPairwise(done, used_barnes_hut) ==
    [used_barnes_hut |-> FALSE, bodies |-> done.bodies, ok |-> done.ok]

\* what an integrator returns after its commit loop
Committed(done, used_barnes_hut) ==
    [used_barnes_hut |-> used_barnes_hut, bodies |-> done.bodies, ok |-> done.ok]

\* semi_implicit_euler_step after compute_accelerations
EulerCommit(bodies, dt, solved) ==
    Committed(
        CommitLoop(bodies,
            Collect([k \in 1..Len(bodies) |->
                [bodies[k] EXCEPT
                   !.velocity = VAdd[@, VMul[solved.accelerations[k], dt]],
                   !.position =
                       VAdd[@, VMul[VAdd[bodies[k].velocity,
                                         VMul[solved.accelerations[k], dt]], dt]]]]),
            1),
        solved.mode = "BarnesHut")

\* a faulty semi_implicit_euler_step: the accelerations it applies are evaluated
\* after a first round of writes, from the positions that round wrote
semi_implicit_euler_step_late(bodies, config, dt) ==
    EulerCommit(bodies, dt,
        compute_accelerations(
            EulerCommit(bodies, dt, compute_accelerations(bodies, config)).bodies,
            config))

\* semi_implicit_euler_step
semi_implicit_euler_step(bodies, config, dt) ==
    EulerCommit(bodies, dt, compute_accelerations(bodies, config))

\* velocity_verlet_step after the second solve
VerletCommit(bodies, dt, solved_0, predicted_positions, solved_1) ==
    Committed(
        CommitLoop(bodies,
            Collect([k \in 1..Len(bodies) |->
                [bodies[k] EXCEPT
                   !.position = predicted_positions[k],
                   !.velocity =
                       VAdd[@, VMul[VAdd[solved_0.accelerations[k],
                                         solved_1.accelerations[k]],
                                    FMul[One \div 2, dt]]]]]),
            1),
        "BarnesHut" \in {solved_0.mode, solved_1.mode})

\* velocity_verlet_step after predicted_positions
VerletCorrect(bodies, config, dt, solved_0, predicted_positions) ==
    VerletCommit(bodies, dt, solved_0, predicted_positions,
        compute_accelerations_with_config(bodies, predicted_positions, config))

\* velocity_verlet_step after the first solve
VerletPredict(bodies, config, dt, solved_0) ==
    VerletCorrect(bodies, config, dt, solved_0,
        Collect([k \in 1..Len(bodies) |->
            IF ~bodies[k].alive THEN bodies[k].position
            ELSE VAdd[VAdd[bodies[k].position, VMul[bodies[k].velocity, dt]],
                      VMul[solved_0.accelerations[k], FMul[FMul[One \div 2, dt], dt]]]]))

\* velocity_verlet_step
velocity_verlet_step(bodies, config, dt) ==
    VerletPredict(bodies, config, dt,
        compute_accelerations_with_config(bodies,
            Collect([k \in 1..Len(bodies) |-> bodies[k].position]), config))

\* from[i] + k[i] * h for every body of rk4_step
Rk4Advance(from, k, h) == Collect([i \in 1..Len(from) |-> VAdd[from[i], VMul[k[i], h]]])

\* (k1 + k2 * 2.0 + k3 * 2.0 + k4) * (dt / 6.0) of rk4_step
Rk4Slope(k1, k2, k3, k4, dt) ==
    VMul[VAdd[VAdd[VAdd[k1, VMul[k2, 2 * One]], VMul[k3, 2 * One]], k4],
         FDiv[dt, 6 * One]]

\* rk4_step after the fourth solve
Rk4Commit(bodies, dt, k1p, solved_1, k2p, solved_2, k3p, solved_3, k4p, solved_4) ==
    Committed(
        CommitLoop(bodies,
            Collect([i \in 1..Len(bodies) |->
                [bodies[i] EXCEPT
                   !.position = VAdd[@, Rk4Slope(k1p[i], k2p[i], k3p[i], k4p[i], dt)],
                   !.velocity =
                       VAdd[@, Rk4Slope(solved_1.accelerations[i],
                                        solved_2.accelerations[i],
                                        solved_3.accelerations[i],
                                        solved_4.accelerations[i], dt)]]]),
            1),
        "BarnesHut" \in {solved_1.mode, solved_2.mode, solved_3.mode, solved_4.mode})

\* rk4_step after the third solve
Rk4Stage4(bodies, config, dt, p0, v0, solved_1, k2p, solved_2, k3p, solved_3) ==
    Rk4Commit(bodies, dt, v0, solved_1, k2p, solved_2, k3p, solved_3,
        Rk4Advance(v0, solved_3.accelerations, dt),
        compute_accelerations_with_config(bodies, Rk4Advance(p0, k3p, dt), config))

\* rk4_step after the second solve
Rk4Stage3(bodies, config, dt, p0, v0, solved_1, k2p, solved_2) ==
    Rk4Stage4(bodies, config, dt, p0, v0, solved_1, k2p, solved_2,
        Rk4Advance(v0, solved_2.accelerations, FMul[One \div 2, dt]),
        compute_accelerations_with_config(bodies,
            Rk4Advance(p0, k2p, FMul[One \div 2, dt]), config))

\* rk4_step after the first solve
Rk4Stage2(bodies, config, dt, p0, v0, solved_1) ==
    Rk4Stage3(bodies, config, dt, p0, v0, solved_1,
        Rk4Advance(v0, solved_1.accelerations, FMul[One \div 2, dt]),
        compute_accelerations_with_config(bodies,
            Rk4Advance(p0, v0, FMul[One \div 2, dt]), config))

\* rk4_step after p0 and v0
Rk4Stage1(bodies, config, dt, p0, v0) ==
    Rk4Stage2(bodies, config, dt, p0, v0,
        compute_accelerations_with_config(bodies, p0, config))

\* rk4_step
rk4_step(bodies, config, dt) ==
    Rk4Stage1(bodies, config, dt,
        Collect([k \in 1..Len(bodies) |-> bodies[k].position]),
        Collect([k \in 1..Len(bodies) |-> bodies[k].velocity]))

\* IntegratorStepStats and the bodies after the integrator ran with dt: ok =
\* FALSE is Err(NumericalInstability), bodies as the failing commit loop left them
IntegratorStepStats(stepped, dt) ==
    [bodies |-> stepped.bodies, ok |-> stepped.ok,
     used_barnes_hut |-> stepped.used_barnes_hut, dt_used |-> dt]

\* integrate_step after effective_dt
IntegrateWith(bodies, config, dt) ==
    IntegratorStepStats(
        CASE config.integrator = "SemiImplicitEuler" ->
                 semi_implicit_euler_step(bodies, config, dt)
          [] config.integrator = "VelocityVerlet" ->
                 velocity_verlet_step(bodies, config, dt)
          [] OTHER -> rk4_step(bodies, config, dt),
        dt)

\* integrate_step
integrate_step(bodies, config) == IntegrateWith(bodies, config, effective_dt(bodies, config))

\* ------------------------------------------------------------------ collision
\* a faulty apply_inelastic_merge: the survivor keeps its own mass
apply_inelastic_merge_own_mass(bodies, i, j) ==
    LET first == bodies[i]
        second == bodies[j]
        total_mass == FAdd[first.mass, second.mass]
    IN
    IF ~first.alive \/ ~second.alive THEN bodies
    ELSE IF FLe[total_mass, 0] THEN bodies
    ELSE [bodies EXCEPT
            ![i] = [@ EXCEPT
                      !.position =
                          VDiv[VAdd[VMul[first.position, first.mass],
                                    VMul[second.position, second.mass]], total_mass],
                      !.velocity =
                          VDiv[VAdd[VMul[first.velocity, first.mass],
                                    VMul[second.velocity, second.mass]], total_mass],
                      !.radius = FSqrt[FAdd[FMul[first.radius, first.radius],
                                            FMul[second.radius, second.radius]]]],
            ![j] = [@ EXCEPT !.alive = FALSE]]

\* apply_inelastic_merge on the pair i < j
apply_inelastic_merge(bodies, i, j) ==
    LET first == bodies[i]
        second == bodies[j]
        total_mass == FAdd[first.mass, second.mass]
    IN
    IF ~first.alive \/ ~second.alive THEN bodies
    ELSE IF FLe[total_mass, 0] THEN bodies
    ELSE
    LET merged_position ==
            VDiv[VAdd[VMul[first.position, first.mass],
                      VMul[second.position, second.mass]], total_mass]
        merged_velocity ==
            VDiv[VAdd[VMul[first.velocity, first.mass],
                      VMul[second.velocity, second.mass]], total_mass]
        merged_radius ==
            FSqrt[FAdd[FMul[first.radius, first.radius],
                       FMul[second.radius, second.radius]]]
    IN  [bodies EXCEPT
           ![i] = [@ EXCEPT !.mass = total_mass, !.position = merged_position,
                            !.velocity = merged_velocity, !.radius = merged_radius],
           ![j] = [@ EXCEPT !.alive = FALSE]]

\* a faulty apply_elastic_collision: each body is pushed back in proportion to
\* the mass of the other
apply_elastic_collision_weighted(bodies, i, j, delta, distance, collision_distance) ==
    IF ~bodies[i].alive \/ ~bodies[j].alive THEN bodies
    ELSE [bodies EXCEPT
            ![i] = [@ EXCEPT !.position =
                       VSub[@, VMul[IF FGt[distance, 0] THEN VDiv[delta, distance]
                                    ELSE Vec(One, 0),
                                    FMul[FDiv[bodies[j].mass,
                                              FAdd[bodies[i].mass, bodies[j].mass]],
                                         FSub[collision_distance, distance]]]]],
            ![j] = [@ EXCEPT !.position =
                       VAdd[@, VMul[IF FGt[distance, 0] THEN VDiv[delta, distance]
                                    ELSE Vec(One, 0),
                                    FMul[FDiv[bodies[i].mass,
                                              FAdd[bodies[i].mass, bodies[j].mass]],
                                         FSub[collision_distance, distance]]]]]]

\* a faulty apply_elastic_collision: the second body of the pair is absorbed
apply_elastic_collision_absorbing(bodies, i, j, delta, distance, collision_distance) ==
    IF ~bodies[i].alive \/ ~bodies[j].alive THEN bodies
    ELSE [bodies EXCEPT
            ![i] = [@ EXCEPT !.mass = FAdd[@, bodies[j].mass]],
            ![j] = [@ EXCEPT !.alive = FALSE]]

\* apply_elastic_collision on the pair i < j
apply_elastic_collision(bodies, i, j, delta, distance, collision_distance) ==
    LET first == bodies[i]
        second == bodies[j]
    IN
    IF ~first.alive \/ ~second.alive THEN bodies
    ELSE
    LET normal == IF FGt[distance, 0] THEN VDiv[delta, distance] ELSE Vec(One, 0)
        relative_velocity == VSub[second.velocity, first.velocity]
        vel_along_normal == dot[relative_velocity, normal]
        restitution == One
        inverse_mass_sum == FAdd[FDiv[One, first.mass], FDiv[One, second.mass]]
        impulse_scalar ==
            FDiv[FNeg[FMul[FAdd[One, restitution], vel_along_normal]], inverse_mass_sum]
        impulse == VMul[normal, impulse_scalar]
        bounce == FLe[vel_along_normal, 0] /\ FGt[inverse_mass_sum, 0]
        velocity_1 == IF bounce THEN VSub[first.velocity, VDiv[impulse, first.mass]]
                      ELSE first.velocity
        velocity_2 == IF bounce THEN VAdd[second.velocity, VDiv[impulse, second.mass]]
                      ELSE second.velocity
        overlap == F64Max[FSub[collision_distance, distance], 0]
        correction == VMul[normal, FAdd[FMul[One \div 2, overlap], Nano]]
        apart == FGt[overlap, 0]
    IN  [bodies EXCEPT
           ![i] = [@ EXCEPT !.velocity = velocity_1,
                            !.position = IF apart THEN VSub[@, correction] ELSE @],
           ![j] = [@ EXCEPT !.velocity = velocity_2,
                            !.position = IF apart THEN VAdd[@, correction] ELSE @]]

\* a faulty inner loop body: the pair is passed over when it is in contact and
\* resolved when it is apart
CollidePairApart(mode, at) ==
    LET i == at.i
        j == at.j
        delta == VSub[at.bodies[j].position, at.bodies[i].position]
        distance == norm[delta]
        collision_distance == FAdd[at.bodies[i].radius, at.bodies[j].radius]
    IN  CASE FLe[distance, collision_distance] -> [at EXCEPT !.j = @ + 1]
          [] mode = "Elastic" ->
                [at EXCEPT !.j = @ + 1, !.stats.collisions = @ + 1,
                           !.bodies = apply_elastic_collision(@, i, j, delta, distance,
                                                              collision_distance)]
          [] mode = "InelasticMerge" ->
                [at EXCEPT !.j = @ + 1, !.stats.collisions = @ + 1,
                           !.stats.merges = @ + 1,
                           !.bodies = apply_inelastic_merge(@, i, j)]
          [] OTHER -> [at EXCEPT !.j = @ + 1, !.stats.collisions = @ + 1]

\* the body of the inner loop of resolve_collisions on the alive pair at.i <
\* at.j: the bodies and the stats after it, and the next pair
CollidePair(mode, at) ==
    LET i == at.i
        j == at.j
        delta == VSub[at.bodies[j].position, at.bodies[i].position]
        distance == norm[delta]
        collision_distance == FAdd[at.bodies[i].radius, at.bodies[j].radius]
    IN  CASE FGt[distance, collision_distance] -> [at EXCEPT !.j = @ + 1]
          [] mode = "Elastic" ->
                [at EXCEPT !.j = @ + 1, !.stats.collisions = @ + 1,
                           !.bodies = apply_elastic_collision(@, i, j, delta, distance,
                                                              collision_distance)]
          [] mode = "InelasticMerge" ->
                [at EXCEPT !.j = @ + 1, !.stats.collisions = @ + 1,
                           !.stats.merges = @ + 1,
                           !.bodies = apply_inelastic_merge(@, i, j)]
          [] OTHER -> [at EXCEPT !.j = @ + 1, !.stats.collisions = @ + 1]

RECURSIVE CollisionLoop(_, _)
\* the two nested loops of resolve_collisions; at holds the bodies and the stats
\* so far and the pair (i, j) the loops stand at
CollisionLoop(mode, at) ==
    CASE at.i > Len(at.bodies) -> at
      [] ~at.bodies[at.i].alive \/ at.j > Len(at.bodies) ->
            CollisionLoop(mode, [at EXCEPT !.i = @ + 1, !.j = at.i + 2])
      [] ~at.bodies[at.j].alive -> CollisionLoop(mode, [at EXCEPT !.j = @ + 1])
      [] OTHER -> CollisionLoop(mode, CollidePair(mode, at))

IsAlive(body) == body.alive

\* a faulty end of resolve_collisions: the merged bodies stay in the list
RetainedAll(mode, looped) ==
    [bodies |-> looped.bodies, stats |-> looped.stats]

\* resolve_collisions after its loops
Retained(mode, looped) ==
    [bodies |-> IF mode = "InelasticMerge" THEN SelectSeq(looped.bodies, IsAlive)
                ELSE looped.bodies,
     stats |-> looped.stats]

\* resolve_collisions: the bodies afterwards and CollisionStats
resolve_collisions(bodies, mode) ==
    IF mode = "Ignore"
    THEN [bodies |-> bodies, stats |-> [collisions |-> 0, merges |-> 0]]
    ELSE Retained(mode,
             CollisionLoop(mode, [bodies |-> bodies, i |-> 1, j |-> 2,
                                  stats |-> [collisions |-> 0, merges |-> 0]]))

\* ------------------------------------------------------------------ engine
\* tick is a u64; the model keeps its wrap at 2^TickBits
TickBits == 3
TickModulus == 2 ^ TickBits

\* validate_unique_body_ids
RECURSIVE UniqueFrom(_, _, _)
UniqueFrom(bodies, k, ids) ==
    IF k > Len(bodies) THEN "ok"
    ELSE IF bodies[k].id \in ids THEN "DuplicateBodyId"
    ELSE UniqueFrom(bodies, k + 1, ids \cup {bodies[k].id})

validate_unique_body_ids(bodies) == UniqueFrom(bodies, 1, {})

\* for body in &bodies { body.validate()?; }
RECURSIVE ValidateAllFrom(_, _)
ValidateAllFrom(bodies, k) ==
    IF k > Len(bodies) THEN "ok"
    ELSE IF BodyValidate(bodies[k]) # "ok" THEN BodyValidate(bodies[k])
    ELSE ValidateAllFrom(bodies, k + 1)

Engine(c, b, t, s) == [config |-> c, bodies |-> b, tick |-> t, sim_time |-> s]

\* SimulationEngine::with_bodies: the outcome, and the engine when it is "ok"
with_bodies_outcome(cfg, bs) ==
    IF ConfigValidate(cfg) # "ok" THEN ConfigValidate(cfg)
    ELSE IF validate_unique_body_ids(bs) # "ok" THEN validate_unique_body_ids(bs)
    ELSE ValidateAllFrom(bs, 1)

with_bodies(cfg, bs) == Engine(cfg, bs, 0, 0)

\* SimulationEngine::initialize
initialize_outcome(cfg) == ConfigValidate(cfg)
initialize(cfg) == Engine(cfg, <<>>, 0, 0)

\* a faulty set_config: the configuration is stored without validation
set_config_unvalidated(eng, cfg) ==
    [engine |-> [eng EXCEPT !.config = cfg], outcome |-> "ok"]

\* SimulationEngine::set_config
set_config(eng, cfg) ==
    IF ConfigValidate(cfg) # "ok"
    THEN [engine |-> eng, outcome |-> ConfigValidate(cfg)]
    ELSE [engine |-> [eng EXCEPT !.config = cfg], outcome |-> "ok"]

\* a faulty create_body: the id is not looked up among the stored bodies
create_body_unchecked(eng, body) ==
    IF BodyValidate(body) # "ok" THEN [engine |-> eng, outcome |-> BodyValidate(body)]
    ELSE [engine |-> [eng EXCEPT !.bodies = Append(@, body)], outcome |-> "ok"]

\* SimulationEngine::create_body
create_body(eng, body) ==
    IF BodyValidate(body) # "ok" THEN [engine |-> eng, outcome |-> BodyValidate(body)]
    ELSE IF \E k \in DOMAIN eng.bodies : eng.bodies[k].id = body.id
         THEN [engine |-> eng, outcome |-> "DuplicateBodyId"]
    ELSE [engine |-> [eng EXCEPT !.bodies = Append(@, body)], outcome |-> "ok"]

\* SimulationEngine::update_body: the fields are assigned in place and the body
\* validated afterwards
update_body(eng, update) ==
    LET hits == {k \in DOMAIN eng.bodies : eng.bodies[k].id = update.id}
    IN  IF hits = {} THEN [engine |-> eng, outcome |-> "BodyNotFound"]
        ELSE LET k == CHOOSE h \in hits : \A g \in hits : h <= g
                 body == eng.bodies[k]
                 edited ==
                     [body EXCEPT
                        !.mass = IF IsSome(update.mass) THEN Unwrap(update.mass) ELSE @,
                        !.radius = IF IsSome(update.radius) THEN Unwrap(update.radius) ELSE @,
                        !.position = IF IsSome(update.position)
                                     THEN Unwrap(update.position) ELSE @,
                        !.velocity = IF IsSome(update.velocity)
                                     THEN Unwrap(update.velocity) ELSE @,
                        !.alive = IF IsSome(update.alive) THEN Unwrap(update.alive) ELSE @,
                        !.metadata = IF IsSome(update.metadata)
                                     THEN Some(Unwrap(update.metadata)) ELSE @]
             IN  [engine |-> [eng EXCEPT !.bodies[k] = edited],
                  outcome |-> BodyValidate(edited)]

\* a faulty delete_body: an id that no body has is not reported
delete_body_quiet(eng, id) ==
    LET KeepOther(body) == body.id # id
    IN  [engine |-> [eng EXCEPT !.bodies = SelectSeq(eng.bodies, KeepOther)],
         outcome |-> "ok"]

\* SimulationEngine::delete_body
delete_body(eng, id) ==
    LET KeepOther(body) == body.id # id
        kept == SelectSeq(eng.bodies, KeepOther)
    IN  IF Len(kept) = Len(eng.bodies)
        THEN [engine |-> [eng EXCEPT !.bodies = kept], outcome |-> "BodyNotFound"]
        ELSE [engine |-> [eng EXCEPT !.bodies = kept], outcome |-> "ok"]

\* SimulationEngine::apply_edit
apply_edit(eng, edit) ==
    IF edit.kind = "Create" THEN create_body(eng, edit.body)
    ELSE IF edit.kind = "Update" THEN update_body(eng, edit.update)
    ELSE delete_body(eng, edit.id)

\* types::deterministic_timestamp_iso8601
deterministic_timestamp_iso8601 == "1970-01-01T00:00:00Z"

\* SimulationEngine::snapshot
snapshot(eng) ==
    [schema_version |-> <<"1", ".", "0">>,
     created_at |-> deterministic_timestamp_iso8601,
     tick |-> eng.tick, sim_time |-> eng.sim_time,
     config_hash |-> stable_hash(eng.config), bodies |-> eng.bodies]

\* a faulty restore_snapshot: tick and sim_time are assigned before the bodies
\* are validated
restore_snapshot_eager(eng, snap) ==
    IF ~StartsWith(snap.schema_version, "1")
    THEN [engine |-> eng, outcome |-> "SchemaValidationFailed"]
    ELSE IF validate_unique_body_ids(snap.bodies) # "ok"
    THEN [engine |-> [eng EXCEPT !.tick = snap.tick, !.sim_time = snap.sim_time],
          outcome |-> validate_unique_body_ids(snap.bodies)]
    ELSE IF ValidateAllFrom(snap.bodies, 1) # "ok"
    THEN [engine |-> [eng EXCEPT !.tick = snap.tick, !.sim_time = snap.sim_time],
          outcome |-> ValidateAllFrom(snap.bodies, 1)]
    ELSE [engine |-> [eng EXCEPT !.tick = snap.tick, !.sim_time = snap.sim_time,
                                 !.bodies = snap.bodies],
          outcome |-> "ok"]

\* SimulationEngine::restore_snapshot
restore_snapshot(eng, snap) ==
    IF ~StartsWith(snap.schema_version, "1")
    THEN [engine |-> eng, outcome |-> "SchemaValidationFailed"]
    ELSE IF validate_unique_body_ids(snap.bodies) # "ok"
    THEN [engine |-> eng, outcome |-> validate_unique_body_ids(snap.bodies)]
    ELSE IF ValidateAllFrom(snap.bodies, 1) # "ok"
    THEN [engine |-> eng, outcome |-> ValidateAllFrom(snap.bodies, 1)]
    ELSE [engine |-> [eng EXCEPT !.tick = snap.tick, !.sim_time = snap.sim_time,
                                 !.bodies = snap.bodies],
          outcome |-> "ok"]

\* SimulationEngine::save_scenario
save_scenario(eng) ==
    [schema_version |-> <<"1", ".", "0">>,
     metadata |-> [name |-> "Untitled", description |-> None, author |-> None,
                   created_at |-> deterministic_timestamp_iso8601, tags |-> <<>>],
     engine_config |-> eng.config, bodies |-> eng.bodies]

\* a faulty load_scenario: tick and sim_time are kept
load_scenario_keeps_time(eng, scenario) ==
    IF ~StartsWith(scenario.schema_version, "1")
    THEN [engine |-> eng, outcome |-> "SchemaValidationFailed"]
    ELSE IF ConfigValidate(scenario.engine_config) # "ok"
    THEN [engine |-> eng, outcome |-> ConfigValidate(scenario.engine_config)]
    ELSE IF validate_unique_body_ids(scenario.bodies) # "ok"
    THEN [engine |-> eng, outcome |-> validate_unique_body_ids(scenario.bodies)]
    ELSE IF ValidateAllFrom(scenario.bodies, 1) # "ok"
    THEN [engine |-> eng, outcome |-> ValidateAllFrom(scenario.bodies, 1)]
    ELSE [engine |-> Engine(scenario.engine_config, scenario.bodies, eng.tick, eng.sim_time),
          outcome |-> "ok"]

\* SimulationEngine::load_scenario
load_scenario(eng, scenario) ==
    IF ~StartsWith(scenario.schema_version, "1")
    THEN [engine |-> eng, outcome |-> "SchemaValidationFailed"]
    ELSE IF ConfigValidate(scenario.engine_config) # "ok"
    THEN [engine |-> eng, outcome |-> ConfigValidate(scenario.engine_config)]
    ELSE IF validate_unique_body_ids(scenario.bodies) # "ok"
    THEN [engine |-> eng, outcome |-> validate_unique_body_ids(scenario.bodies)]
    ELSE IF ValidateAllFrom(scenario.bodies, 1) # "ok"
    THEN [engine |-> eng, outcome |-> ValidateAllFrom(scenario.bodies, 1)]
    ELSE [engine |-> Engine(scenario.engine_config, scenario.bodies, 0, 0),
          outcome |-> "ok"]

\* SimulationEngine::get_state
get_state(eng) ==
    [tick |-> eng.tick, sim_time |-> eng.sim_time, config |-> eng.config,
     bodies |-> eng.bodies]

\* StepSummary::default
StepSummaryDefault ==
    [ticks_applied |-> 0, final_tick |-> 0, sim_time |-> 0, collision_events |-> 0,
     merged_events |-> 0, warnings |-> <<>>, pairwise_ticks |-> 0,
     barnes_hut_ticks |-> 0, step_wall_time_micros |-> 0, average_tick_micros |-> 0,
     max_body_count |-> 0, last_solver_mode |-> "pairwise"]

NatMax(a, b) == IF a >= b THEN a ELSE b

\* one iteration of the `for _ in 0..ticks` loop of SimulationEngine::step from
\* its counters on.  run is the run so far: the engine, the summary and, for
\* each completed iteration, a trace entry with the bodies at its start, after
\* integration and after collision resolution.  `self.tick += 1` past u64::MAX
\* panics in a build with overflow checks and wraps in one without.
TickCount(run, overflow_checks, integration_stats, resolved) ==
    LET eng == run.engine
        collision_stats == resolved.stats
        counted ==
            [run.summary EXCEPT
               !.collision_events = @ + collision_stats.collisions,
               !.merged_events = @ + collision_stats.merges,
               !.ticks_applied = @ + 1,
               !.max_body_count = NatMax(@, Len(resolved.bodies)),
               !.barnes_hut_ticks =
                   IF integration_stats.used_barnes_hut THEN @ + 1 ELSE @,
               !.pairwise_ticks =
                   IF integration_stats.used_barnes_hut THEN @ ELSE @ + 1,
               !.last_solver_mode =
                   IF integration_stats.used_barnes_hut THEN "barnesHut" ELSE "pairwise"]
        entry == [start |-> eng.bodies, integrated |-> integration_stats.bodies,
                  resolved |-> resolved.bodies, stats |-> collision_stats,
                  used_barnes_hut |-> integration_stats.used_barnes_hut,
                  dt_used |-> integration_stats.dt_used]
    IN  IF eng.tick + 1 >= TickModulus /\ overflow_checks
        THEN [engine |-> [eng EXCEPT !.bodies = resolved.bodies],
              summary |-> counted, trace |-> Append(run.trace, entry),
              outcome |-> "panic"]
        ELSE [engine |-> [eng EXCEPT !.bodies = resolved.bodies,
                                     !.tick = (@ + 1) % TickModulus,
                                     !.sim_time = FAdd[@, integration_stats.dt_used]],
              summary |-> counted, trace |-> Append(run.trace, entry),
              outcome |-> "ok"]

\* one iteration of the loop from the `?` on integrate_step on: Err leaves the
\* bodies as the integrator wrote them and returns
TickResolve(run, overflow_checks, integration_stats) ==
    IF ~integration_stats.ok
    THEN [run EXCEPT !.engine.bodies = integration_stats.bodies,
                     !.outcome = "NumericalInstability"]
    ELSE TickCount(run, overflow_checks, integration_stats,
             resolve_collisions(integration_stats.bodies,
                                run.engine.config.collision_mode))

\* one iteration of the loop
Tick(run, overflow_checks) ==
    TickResolve(run, overflow_checks,
                integrate_step(run.engine.bodies, run.engine.config))

RECURSIVE StepLoop(_, _, _)
\* the `for _ in 0..ticks` loop with `remaining` iterations to go
StepLoop(run, remaining, overflow_checks) ==
    IF remaining = 0 \/ run.outcome # "ok" THEN run
    ELSE StepLoop(Tick(run, overflow_checks), remaining - 1, overflow_checks)

\* a faulty start of step: the summary does not take the number of bodies
StepRunUncounted(eng, ticks, overflow_checks) ==
    StepLoop([engine |-> eng, summary |-> StepSummaryDefault,
              trace |-> <<>>, outcome |-> "ok"],
             ticks, overflow_checks)

\* a faulty start of step: the loop runs once even for ticks = 0
StepRunAtLeastOnce(eng, ticks, overflow_checks) ==
    StepLoop([engine |-> eng,
              summary |-> [StepSummaryDefault EXCEPT !.max_body_count = Len(eng.bodies)],
              trace |-> <<>>, outcome |-> "ok"],
             IF ticks = 0 THEN 1 ELSE ticks, overflow_checks)

\* SimulationEngine::step up to the end of its loop
StepRun(eng, ticks, overflow_checks) ==
    StepLoop([engine |-> eng,
              summary |-> [StepSummaryDefault EXCEPT !.max_body_count = Len(eng.bodies)],
              trace |-> <<>>, outcome |-> "ok"],
             ticks, overflow_checks)

\* a faulty return of step: the wall clock reading is added to the simulation time
StepReturnClocked(ran, ticks, wall) ==
    [ran EXCEPT !.engine.sim_time = FAdd[@, wall],
                !.summary.step_wall_time_micros = wall]

\* SimulationEngine::step from the end of its loop on: the early return of
\* ticks = 0, the timing fields and the scan for non-finite bodies.  wall is
\* what wall_start.elapsed().as_micros() reads.
StepReturn(ran, ticks, wall) ==
    LET eng == ran.engine
        timed == [ran.summary EXCEPT
                    !.step_wall_time_micros = wall,
                    !.average_tick_micros =
                        IF ran.summary.ticks_applied > 0
                        THEN wall \div ran.summary.ticks_applied ELSE @]
    IN  CASE ticks = 0 ->
                [ran EXCEPT !.summary.final_tick = eng.tick,
                            !.summary.sim_time = eng.sim_time]
          [] ran.outcome # "ok" -> ran
          [] \E k \in DOMAIN eng.bodies : ~ensure_finite_body(eng.bodies[k]) ->
                [ran EXCEPT !.summary = timed, !.outcome = "NumericalInstability"]
          [] OTHER ->
                [ran EXCEPT !.summary = [timed EXCEPT !.final_tick = eng.tick,
                                                      !.sim_time = eng.sim_time]]

\* SimulationEngine::step
step(eng, ticks, wall, overflow_checks) ==
    StepReturn(StepRun(eng, ticks, overflow_checks), ticks, wall)

\* ------------------------------------------------------------------ inputs
MaxOps == 2
MaxTicks == 2
MaxWall == 1

IdA == <<"a">>
IdB == <<"b">>
IdC == <<"c">>
IdY == <<"y">>
IdZ == <<"z">>
IdBlank == <<" ">>

\* tests/engine_tests.rs base_config, on the grid
BaseConfig ==
    [gravity_constant |-> One, softening_epsilon |-> One \div 10, dt |-> One,
     dt_policy |-> "Fixed", integrator |-> "VelocityVerlet",
     collision_mode |-> "Ignore", deterministic |-> TRUE,
     gravity_solver |-> "Pairwise", barnes_hut_theta |-> (6 * One) \div 10,
     barnes_hut_threshold |-> 256]

ValidConfigs ==
    {[BaseConfig EXCEPT !.integrator = i, !.collision_mode = c,
                        !.gravity_solver = g[1], !.barnes_hut_threshold = g[2]] :
        i \in {"SemiImplicitEuler", "VelocityVerlet", "Rk4"},
        c \in {"Ignore", "Elastic", "InelasticMerge"},
        g \in {<<"Pairwise", 256>>, <<"Auto", 2>>, <<"Auto", 3>>}}
    \cup
    {[BaseConfig EXCEPT !.integrator = i, !.collision_mode = c,
                        !.dt_policy = "Adaptive", !.deterministic = FALSE] :
        i \in {"SemiImplicitEuler", "VelocityVerlet", "Rk4"},
        c \in {"Ignore", "InelasticMerge"}}

\* the configurations the hosts of the editing operations start from
HostConfigs ==
    {BaseConfig,
     [BaseConfig EXCEPT !.integrator = "SemiImplicitEuler",
                        !.collision_mode = "InelasticMerge",
                        !.gravity_solver = "Auto", !.barnes_hut_threshold = 2],
     [BaseConfig EXCEPT !.integrator = "Rk4", !.collision_mode = "Elastic",
                        !.gravity_solver = "BarnesHut"],
     [BaseConfig EXCEPT !.dt_policy = "Adaptive", !.deterministic = FALSE]}

InvalidConfigs ==
    {[BaseConfig EXCEPT !.dt_policy = "Adaptive"],
     [BaseConfig EXCEPT !.dt = 0],
     [BaseConfig EXCEPT !.gravity_constant = NaN],
     [BaseConfig EXCEPT !.barnes_hut_theta = 3 * One],
     [BaseConfig EXCEPT !.barnes_hut_threshold = 0]}

\* two equal masses at rest that attract each other
PairBodies ==
    <<NewBody(IdA, 10 * One, One \div 10, Vec(0 - One, 0), ZERO),
      NewBody(IdB, 10 * One, One \div 10, Vec(One, 0), ZERO)>>

\* the overlapping pair of inelastic_merge_conserves_mass_and_momentum
MergeBodies ==
    <<NewBody(IdA, 2 * One, One, Vec(0, 0), Vec(One, 0)),
      NewBody(IdB, 3 * One, One, Vec(One \div 2, 0), Vec(0 - (One \div 2), 0))>>

\* three light overlapping bodies at rest: one pass merges b and then c into a
ChainBodies ==
    <<[NewBody(IdA, (2 * One) \div 100, One, Vec(0, 0), ZERO)
          EXCEPT !.metadata = Some("star")],
      NewBody(IdB, (3 * One) \div 100, One, Vec(One \div 2, 0), ZERO),
      NewBody(IdC, One \div 100, One, Vec(0, One \div 2), ZERO)>>

\* two light bodies at rest that touch: their distance is the sum of their radii
TouchBodies ==
    <<NewBody(IdA, One \div 100, One, Vec(0 - One, 0), ZERO),
      NewBody(IdB, (2 * One) \div 100, One, Vec(One, 0), ZERO)>>

\* three bodies that stay apart
TrioBodies ==
    <<NewBody(IdA, 2 * One, One \div 5, Vec(0 - 2 * One, 0), Vec(0, One \div 10)),
      NewBody(IdB, 2 * One, One \div 5, Vec(2 * One, 0), Vec(0, 0 - (One \div 10))),
      NewBody(IdC, 2 * One, One \div 5, Vec(0, 2 * One), Vec(0 - (One \div 10), 0))>>

\* a body the host stored as not alive, between two alive ones
DeadBodies ==
    <<PairBodies[1],
      [NewBody(IdC, 5 * One, One, Vec(0 - One, 0), Vec(One, One)) EXCEPT !.alive = FALSE],
      PairBodies[2]>>

\* a body whose second tick leaves the f64 range
FastBodies ==
    <<NewBody(IdA, One, One \div 10, Vec(0, 0), Vec(FMax, 0)),
      NewBody(IdB, One, One \div 10, Vec(0, 5 * One), Vec(0, One))>>

ValidLists == {PairBodies, MergeBodies, ChainBodies, TrioBodies, DeadBodies, FastBodies}

InvalidLists ==
    {<<PairBodies[1], PairBodies[1]>>,
     <<PairBodies[1], [PairBodies[2] EXCEPT !.mass = 0]>>}

NoUpdate(id) ==
    [id |-> id, mass |-> None, radius |-> None, position |-> None,
     velocity |-> None, alive |-> None, metadata |-> None]

CreateInputs ==
    {NewBody(IdZ, One, One \div 10, Vec(0, 0 - 3 * One), ZERO),
     NewBody(IdA, One, One \div 10, Vec(0, 0 - 3 * One), ZERO),
     NewBody(IdZ, 0 - One, One \div 10, Vec(0, 0 - 3 * One), ZERO),
     NewBody(IdBlank, One, One \div 10, Vec(0, 0 - 3 * One), ZERO)}

UpdateInputs ==
    {[NoUpdate(IdA) EXCEPT !.mass = Some(4 * One), !.metadata = Some("star")],
     [NoUpdate(IdA) EXCEPT !.mass = Some(0 - ((3 * One) \div 100))],
     [NoUpdate(IdA) EXCEPT !.position = Some(Vec(NaN, 0))],
     [NoUpdate(IdB) EXCEPT !.velocity = Some(Vec(0, PosInf)), !.alive = Some(FALSE)],
     [NoUpdate(IdB) EXCEPT !.alive = Some(FALSE)],
     [NoUpdate(IdZ) EXCEPT !.radius = Some(One)]}

DeleteInputs == {IdA, IdZ}

SchemaVersions == {<<"1", ".", "0">>, <<"2", ".", "0">>, <<"1", "0", ".", "0">>, <<>>}

SnapshotInputs ==
    {[schema_version |-> v, created_at |-> deterministic_timestamp_iso8601,
      tick |-> t, sim_time |-> 0, config_hash |-> stable_hash(BaseConfig),
      bodies |-> bs] :
        v \in SchemaVersions, t \in {TickModulus - 1}, bs \in {MergeBodies}}
    \cup
    {[schema_version |-> <<"1", ".", "0">>,
      created_at |-> deterministic_timestamp_iso8601,
      tick |-> 1, sim_time |-> One, config_hash |-> stable_hash(BaseConfig),
      bodies |-> bs] : bs \in InvalidLists}

ScenarioMetadata ==
    [name |-> "Untitled", description |-> None, author |-> None,
     created_at |-> deterministic_timestamp_iso8601, tags |-> <<>>]

ScenarioInputs ==
    {[schema_version |-> v, metadata |-> ScenarioMetadata,
      engine_config |-> [BaseConfig EXCEPT !.collision_mode = "Elastic"],
      bodies |-> MergeBodies] : v \in SchemaVersions}
    \cup
    {[schema_version |-> <<"1", ".", "0">>, metadata |-> ScenarioMetadata,
      engine_config |-> c, bodies |-> PairBodies] : c \in {[BaseConfig EXCEPT !.dt = 0]}}
    \cup
    {[schema_version |-> <<"1", ".", "0">>, metadata |-> ScenarioMetadata,
      engine_config |-> BaseConfig, bodies |-> bs] : bs \in InvalidLists}

SetConfigInputs ==
    {[BaseConfig EXCEPT !.collision_mode = "InelasticMerge", !.gravity_solver = "Auto",
                        !.barnes_hut_threshold = 2],
     [BaseConfig EXCEPT !.dt_policy = "Adaptive", !.deterministic = FALSE]}
    \cup InvalidConfigs

\* ------------------------------------------------------------------ state
\* config, bodies, tick, sim_time: the fields of the SimulationEngine the host
\* drives.  replica: a second engine built from the same arguments.  pre: the
\* engine as it was when the last call was made.  last: that call, its
\* argument, what it returned and, for step, what each tick did.  ops: the
\* number of calls made.
VARIABLES config, bodies, tick, sim_time, last, pre, ops, replica,
          ENGINES, NEXT_HANDLE, response, disposed, calls,
          lock, threads, issued

vars == <<config, bodies, tick, sim_time, last, pre, ops, replica,
          ENGINES, NEXT_HANDLE, response, disposed, calls,
          lock, threads, issued>>

\* ffi.rs: ENGINES is the registry of the engines by handle and NEXT_HANDLE the
\* next handle to issue.  response: what the last gs_ call returned.  disposed:
\* the handles gs_dispose has removed.  calls: the number of gs_ calls made.
\* lock: the thread that holds the Mutex of ENGINES, 0 for none.  threads: where
\* each calling thread stands in its gs_ call and what the call returned to it.
\* issued: the handles successful gs_initialize calls returned, in order.
thread_vars == <<lock, threads, issued>>

ffi_vars == <<ENGINES, NEXT_HANDLE, response, disposed, calls, lock, threads, issued>>

MaxThreads == 2

Threads == 1..MaxThreads

\* a thread that is in no call and has made none
NoCall ==
    [pc |-> "idle", call |-> "none", handle |-> 0, ticks |-> 0, held |-> <<>>,
     ok |-> TRUE, error |-> "", removed |-> FALSE, state |-> <<>>]

core_vars == <<config, bodies, tick, sim_time, last, pre, ops, replica>>

\* what a gs_ call returned: response_to_ptr's ok and error, the removed of
\* gs_dispose, and whether the handle had been disposed of when the call was made
Response(call, handle, ok, error, removed) ==
    [call |-> call, handle |-> handle, ok |-> ok, error |-> error,
     removed |-> removed, after_dispose |-> handle \in disposed]

\* the error text of a handle that is not in the registry
HandleNotFound == "engine handle not found"

\* the error text of an argument that is not the JSON of its type
ParseFailed == "failed to parse json"

\* the statics of ffi.rs before any call
NoRegistry ==
    /\ ENGINES = <<>>
    /\ NEXT_HANDLE = 1
    /\ response = [call |-> "none", handle |-> 0, ok |-> TRUE, error |-> "",
                   removed |-> FALSE, after_dispose |-> FALSE]
    /\ disposed = {}
    /\ calls = 0
    /\ lock = 0
    /\ threads = [t \in Threads |-> NoCall]
    /\ issued = <<>>

Self == Engine(config, bodies, tick, sim_time)

\* what the last call was, what it was given and what it returned
Call(op, arg, outcome, summary, trace) ==
    [op |-> op, arg |-> arg, outcome |-> outcome, summary |-> summary, trace |-> trace]

Becomes(eng) ==
    /\ config' = eng.config
    /\ bodies' = eng.bodies
    /\ tick' = eng.tick
    /\ sim_time' = eng.sim_time

\* a panic ends the process; until then the host may call on
Running == last.outcome # "panic" /\ ops < MaxOps

Returns(op, arg, res) ==
    /\ Becomes(res.engine)
    /\ last' = Call(op, arg, res.outcome, StepSummaryDefault, <<>>)
    /\ pre' = Self
    /\ ops' = ops + 1
    /\ UNCHANGED ffi_vars

\* SimulationEngine::with_bodies over the given arguments; a rejected
\* construction leaves no engine
Built(configs, lists) ==
    /\ \E cfg \in configs, bs \in lists :
          /\ with_bodies_outcome(cfg, bs) = "ok"
          /\ config = cfg
          /\ bodies = bs
          /\ replica = with_bodies(cfg, bs)
          /\ pre = with_bodies(cfg, bs)
          /\ last = Call("with_bodies", [config |-> cfg, bodies |-> bs], "ok",
                         StepSummaryDefault, <<>>)
    /\ tick = 0
    /\ sim_time = 0
    /\ ops = 0
    /\ NoRegistry

\* SimulationEngine::initialize over the given arguments
Initialized(configs) ==
    /\ \E cfg \in configs :
          /\ initialize_outcome(cfg) = "ok"
          /\ config = cfg
          /\ replica = initialize(cfg)
          /\ pre = initialize(cfg)
          /\ last = Call("initialize", cfg, "ok", StepSummaryDefault, <<>>)
    /\ bodies = <<>>
    /\ tick = 0
    /\ sim_time = 0
    /\ ops = 0
    /\ NoRegistry

Init ==
    \/ Built(HostConfigs \cup InvalidConfigs, ValidLists \cup InvalidLists \cup {<<>>})
    \/ Initialized(HostConfigs \cup InvalidConfigs)

SetConfig ==
    /\ Running
    /\ \E cfg \in SetConfigInputs : Returns("set_config", cfg, set_config(Self, cfg))
    /\ UNCHANGED replica

ApplyEdit ==
    /\ Running
    /\ \E edit \in {[kind |-> "Create", body |-> b] : b \in CreateInputs}
                   \cup {[kind |-> "Update", update |-> u] : u \in UpdateInputs}
                   \cup {[kind |-> "Delete", id |-> i] : i \in DeleteInputs} :
          Returns("apply_edit", edit, apply_edit(Self, edit))
    /\ UNCHANGED replica

RestoreSnapshot ==
    /\ Running
    /\ \E snap \in SnapshotInputs :
          Returns("restore_snapshot", snap, restore_snapshot(Self, snap))
    /\ UNCHANGED replica

LoadScenario ==
    /\ Running
    /\ \E scenario \in ScenarioInputs \cup {save_scenario(Self)} :
          Returns("load_scenario", scenario, load_scenario(Self, scenario))
    /\ UNCHANGED replica

\* the builds differ only where the tick would pass its width
OverflowChecks(ticks) == IF tick + ticks >= TickModulus THEN BOOLEAN ELSE {FALSE}

Stepped(ticks, res) ==
    /\ Becomes(res.engine)
    /\ last' = Call("step", ticks, res.outcome, res.summary, res.trace)
    /\ pre' = Self
    /\ ops' = ops + 1
    /\ UNCHANGED ffi_vars

Step ==
    /\ Running
    /\ \E ticks \in 0..MaxTicks, wall \in 0..MaxWall :
          \E overflow_checks \in OverflowChecks(ticks) :
              Stepped(ticks, step(Self, ticks, wall, overflow_checks))
    /\ UNCHANGED replica

Next == SetConfig \/ ApplyEdit \/ RestoreSnapshot \/ LoadScenario \/ Step

\* a host that builds an engine, edits it, loads and restores into it and steps it
Spec == Init /\ [][Next]_vars

\* ------------------------------------------------------------------ first call
InitOnce == Built(ValidConfigs \cup HostConfigs, ValidLists \cup {TouchBodies, <<>>})

\* the first call on a new engine is a step
StepOnce ==
    /\ ops = 0
    /\ Step

NextOnce == StepOnce

\* a host that builds an engine from a configuration and a body list and
\* steps it in one call of up to MaxTicks ticks
SpecOnce == InitOnce /\ [][NextOnce]_vars

\* ------------------------------------------------------------------ replay
InitReplay == Built(ValidConfigs, ValidLists \cup {<<>>})

\* the same step(ticks) call on the engine and on its replica; the two calls
\* read different wall clocks
StepBoth ==
    /\ Running
    /\ \E ticks \in 0..MaxTicks :
          LET ran == StepRun(Self, ticks, FALSE)
              replayed == StepRun(replica, ticks, FALSE)
          IN  \E wall \in 0..MaxWall :
                 /\ Stepped(ticks, StepReturn(ran, ticks, wall))
                 /\ replica' = StepReturn(replayed, ticks, MaxWall - wall).engine

NextReplay == StepBoth

\* a host that builds two engines from one configuration and one body list
\* and steps both
SpecReplay == InitReplay /\ [][NextReplay]_vars

\* ------------------------------------------------------------------ bodies not alive
\* two valid bodies stored as not alive, in reach of the alive ones
DeadFront ==
    [NewBody(IdZ, 5 * One, One, Vec(0, 0), Vec(One, One)) EXCEPT !.alive = FALSE]
DeadBack ==
    [NewBody(IdY, 7 * One, 2 * One, Vec(One \div 2, 0), ZERO) EXCEPT !.alive = FALSE]

\* the lists of alive bodies with bodies that are not alive put before them,
\* after them, and both
PaddedLists ==
    {<<DeadFront>> \o bs : bs \in {PairBodies, MergeBodies, ChainBodies, TrioBodies}}
    \cup {bs \o <<DeadBack>> : bs \in {PairBodies, MergeBodies, ChainBodies, TouchBodies}}
    \cup {<<DeadFront>> \o bs \o <<DeadBack>> : bs \in {MergeBodies, ChainBodies, TrioBodies}}

\* the list without its bodies that are not alive
AliveOnly(bs) == SelectSeq(bs, IsAlive)

\* SimulationEngine::with_bodies twice: the engine over a list, the replica
\* over the same list without the bodies that are not alive
InitInert ==
    /\ \E cfg \in ValidConfigs \cup HostConfigs, bs \in PaddedLists :
          /\ with_bodies_outcome(cfg, bs) = "ok"
          /\ with_bodies_outcome(cfg, AliveOnly(bs)) = "ok"
          /\ config = cfg
          /\ bodies = bs
          /\ replica = with_bodies(cfg, AliveOnly(bs))
          /\ pre = with_bodies(cfg, bs)
          /\ last = Call("with_bodies", [config |-> cfg, bodies |-> bs], "ok",
                         StepSummaryDefault, <<>>)
    /\ tick = 0
    /\ sim_time = 0
    /\ ops = 0
    /\ NoRegistry

\* the first call on both engines is the same step
StepInert ==
    /\ ops = 0
    /\ StepBoth

NextInert == StepInert

\* a host that builds an engine over a list holding bodies that are not alive
\* and one over the alive bodies alone, and steps both in one call
SpecInert == InitInert /\ [][NextInert]_vars

\* ------------------------------------------------------------------ snapshot kept
\* In this specification replica is the engine as it was when the host took
\* the snapshot it keeps: the snapshot is snapshot(replica).
InitRestore == Built(HostConfigs, {PairBodies, ChainBodies, FastBodies, DeadBodies})

\* SimulationEngine::snapshot, kept by the host in place of the one it had
TakeSnapshot ==
    /\ Running
    /\ replica # Self
    /\ replica' = Self
    /\ UNCHANGED <<config, bodies, tick, sim_time, last, pre, ops>>
    /\ UNCHANGED ffi_vars

\* SimulationEngine::restore_snapshot of the snapshot the host keeps
RestoreTaken ==
    /\ Running
    /\ Returns("restore_snapshot", snapshot(replica),
               restore_snapshot(Self, snapshot(replica)))
    /\ UNCHANGED replica

NextRestore == TakeSnapshot \/ ApplyEdit \/ Step \/ RestoreTaken

\* a host that builds an engine, takes snapshots of it, edits and steps it and
\* restores the snapshot it took last; it never changes the config
SpecRestore == InitRestore /\ [][NextRestore]_vars

\* ------------------------------------------------------------------ batches
\* In this specification replica is the engine as it was built: no action
\* changes it.
InitBatch ==
    Built({c \in ValidConfigs : c.collision_mode = "InelasticMerge"} \cup HostConfigs,
          ValidLists \cup {TouchBodies})

NextBatch == Step

\* a host that builds an engine and steps it in up to MaxOps calls
SpecBatch == InitBatch /\ [][NextBatch]_vars

\* ------------------------------------------------------------------ the tree
\* configurations that take the quadtree, over the range of opening angles
\* validate accepts
TreeConfigs ==
    {[BaseConfig EXCEPT !.integrator = i, !.gravity_solver = g[1],
                        !.barnes_hut_threshold = g[2], !.barnes_hut_theta = t] :
        i \in {"SemiImplicitEuler", "VelocityVerlet", "Rk4"},
        g \in {<<"BarnesHut", 256>>, <<"Auto", 2>>},
        t \in {(3 * One) \div 10, (6 * One) \div 10, One, 2 * One}}

\* two bodies at one position and a third apart from them
TwinBodies ==
    <<NewBody(IdA, One, One \div 10, Vec(One, One), ZERO),
      NewBody(IdB, 2 * One, One \div 10, Vec(One, One), ZERO),
      NewBody(IdC, One, One \div 10, Vec(0 - One, 0), ZERO)>>

\* two bodies the smallest step of the grid apart and a third far from them
NearBodies ==
    <<NewBody(IdA, One, One \div 10, Vec(0, 0), ZERO),
      NewBody(IdB, One, One \div 10, Vec(1, 0), ZERO),
      NewBody(IdC, One, One \div 10, Vec(4 * One, 3 * One), ZERO)>>

\* two bodies a tenth apart and a third far enough for their cell to reach
\* min_half before it separates them
CloseBodies ==
    <<NewBody(IdA, One, One \div 100, Vec(0, 0), ZERO),
      NewBody(IdB, One, One \div 100, Vec(One \div 10, 0), ZERO),
      NewBody(IdC, One, One \div 100, Vec(200 * One, 0), ZERO)>>

\* two bodies half a unit apart and a third that makes the root cell large
SpreadBodies ==
    <<NewBody(IdA, One, One \div 100, Vec(0, 0), ZERO),
      NewBody(IdB, One, One \div 100, Vec(One \div 2, 0), ZERO),
      NewBody(IdC, One, One \div 100, Vec(4 * One, 3 * One), ZERO)>>

TreeLists ==
    ValidLists \cup {TouchBodies, TwinBodies, NearBodies, CloseBodies, SpreadBodies}

InitTree == Built(TreeConfigs, TreeLists)

StepTree == ops = 0 /\ Step

NextTree == StepTree

\* one step call on an engine whose solver takes the tree
SpecTree == InitTree /\ [][NextTree]_vars

\* ------------------------------------------------------------------ ffi
MaxHandles == 2
MaxCalls == 3

\* the handles a caller passes: those gs_initialize can issue, and 0, which it
\* never issues
Handles == 0..MaxHandles

\* the JSON arguments, as what parse_json_arg makes of them: None when the text
\* does not parse
GsConfigArgs == {Some(BaseConfig), Some([BaseConfig EXCEPT !.dt = 0]), None}

GsBodiesArgs == {Some(PairBodies), Some(<<PairBodies[1], PairBodies[1]>>), None}

GsEditArgs ==
    {Some([kind |-> "Create",
           body |-> NewBody(IdZ, One, One \div 10, Vec(0, 0 - 3 * One), ZERO)]),
     Some([kind |-> "Update",
           update |-> [NoUpdate(IdA) EXCEPT !.position = Some(Vec(NaN, 0))]]),
     Some([kind |-> "Delete", id |-> IdZ]),
     None}

GsScenarioArgs ==
    {Some([schema_version |-> v, metadata |-> ScenarioMetadata,
           engine_config |-> BaseConfig, bodies |-> MergeBodies]) :
        v \in {<<"1", ".", "0">>, <<"2", ".", "0">>}} \cup {None}

GsSnapshotArgs ==
    {Some([schema_version |-> <<"1", ".", "0">>,
           created_at |-> deterministic_timestamp_iso8601,
           tick |-> TickModulus - 1, sim_time |-> 0,
           config_hash |-> stable_hash(BaseConfig), bodies |-> bs]) :
        bs \in {MergeBodies, <<PairBodies[1], PairBodies[1]>>}} \cup {None}

\* a panic inside an extern "C" function aborts the process
Live == calls < MaxCalls /\ response.error # "abort"

Respond(call, handle, ok, error, removed) ==
    /\ response' = Response(call, handle, ok, error, removed)
    /\ calls' = calls + 1

\* gs_initialize
GsInitialize ==
    /\ Live
    /\ NEXT_HANDLE <= MaxHandles
    /\ \E config_json \in GsConfigArgs, bodies_json \in GsBodiesArgs :
          CASE config_json = None \/ bodies_json = None ->
                  /\ Respond("gs_initialize", 0, FALSE, ParseFailed, FALSE)
                  /\ UNCHANGED <<ENGINES, NEXT_HANDLE>>
            [] with_bodies_outcome(Unwrap(config_json), Unwrap(bodies_json)) # "ok" ->
                  /\ Respond("gs_initialize", 0, FALSE,
                             with_bodies_outcome(Unwrap(config_json), Unwrap(bodies_json)),
                             FALSE)
                  /\ UNCHANGED <<ENGINES, NEXT_HANDLE>>
            [] OTHER ->
                  /\ ENGINES' = [h \in DOMAIN ENGINES \cup {NEXT_HANDLE} |->
                                    IF h = NEXT_HANDLE
                                    THEN with_bodies(Unwrap(config_json), Unwrap(bodies_json))
                                    ELSE ENGINES[h]]
                  /\ NEXT_HANDLE' = NEXT_HANDLE + 1
                  /\ Respond("gs_initialize", NEXT_HANDLE, TRUE, "", FALSE)
    /\ UNCHANGED disposed
    /\ UNCHANGED thread_vars
    /\ UNCHANGED core_vars

\* gs_dispose
GsDispose ==
    /\ Live
    /\ \E handle \in Handles :
          /\ ENGINES' = [h \in DOMAIN ENGINES \ {handle} |-> ENGINES[h]]
          /\ disposed' = IF handle \in DOMAIN ENGINES THEN disposed \cup {handle}
                         ELSE disposed
          /\ Respond("gs_dispose", handle, TRUE, "", handle \in DOMAIN ENGINES)
    /\ UNCHANGED NEXT_HANDLE
    /\ UNCHANGED thread_vars
    /\ UNCHANGED core_vars

\* a lookup that answers for a handle the registry does not hold
with_engine_mut_stale(call, handle, parsed, res) ==
    CASE handle \notin DOMAIN ENGINES ->
            Respond(call, handle, TRUE, "", FALSE) /\ UNCHANGED ENGINES
      [] ~parsed ->
            Respond(call, handle, FALSE, ParseFailed, FALSE) /\ UNCHANGED ENGINES
      [] res.outcome = "panic" ->
            Respond(call, handle, FALSE, "abort", FALSE)
            /\ ENGINES' = [ENGINES EXCEPT ![handle] = res.engine]
      [] OTHER ->
            Respond(call, handle, res.outcome = "ok",
                    IF res.outcome = "ok" THEN "" ELSE res.outcome, FALSE)
            /\ ENGINES' = [ENGINES EXCEPT ![handle] = res.engine]

\* with_engine_mut around an action that parses its argument and calls the
\* engine: res is what the engine call leaves and returns
with_engine_mut(call, handle, parsed, res) ==
    CASE handle \notin DOMAIN ENGINES ->
            /\ Respond(call, handle, FALSE, HandleNotFound, FALSE)
            /\ UNCHANGED ENGINES
      [] ~parsed ->
            /\ Respond(call, handle, FALSE, ParseFailed, FALSE)
            /\ UNCHANGED ENGINES
      [] res.outcome = "panic" ->
            /\ Respond(call, handle, FALSE, "abort", FALSE)
            /\ ENGINES' = [ENGINES EXCEPT ![handle] = res.engine]
      [] OTHER ->
            /\ Respond(call, handle, res.outcome = "ok",
                       IF res.outcome = "ok" THEN "" ELSE res.outcome, FALSE)
            /\ ENGINES' = [ENGINES EXCEPT ![handle] = res.engine]

\* with_engine around an action that reads the engine
with_engine(call, handle) ==
    /\ IF handle \in DOMAIN ENGINES
       THEN Respond(call, handle, TRUE, "", FALSE)
       ELSE Respond(call, handle, FALSE, HandleNotFound, FALSE)
    /\ UNCHANGED ENGINES

\* gs_set_config
GsSetConfig ==
    /\ Live
    /\ \E handle \in Handles, config_json \in GsConfigArgs :
          with_engine_mut("gs_set_config", handle, config_json # None,
                          set_config(ENGINES[handle], Unwrap(config_json)))
    /\ UNCHANGED <<NEXT_HANDLE, disposed>>
    /\ UNCHANGED thread_vars
    /\ UNCHANGED core_vars

\* gs_apply_edit
GsApplyEdit ==
    /\ Live
    /\ \E handle \in Handles, edit_json \in GsEditArgs :
          with_engine_mut("gs_apply_edit", handle, edit_json # None,
                          apply_edit(ENGINES[handle], Unwrap(edit_json)))
    /\ UNCHANGED <<NEXT_HANDLE, disposed>>
    /\ UNCHANGED thread_vars
    /\ UNCHANGED core_vars

\* the builds differ only where the tick of the engine would pass its width
GsOverflowChecks(handle, ticks) ==
    IF handle \in DOMAIN ENGINES /\ ENGINES[handle].tick + ticks >= TickModulus
    THEN BOOLEAN ELSE {FALSE}

\* gs_step
GsStep ==
    /\ Live
    /\ \E handle \in Handles, ticks \in 0..1, wall \in 0..MaxWall :
          \E overflow_checks \in GsOverflowChecks(handle, ticks) :
              with_engine_mut("gs_step", handle, TRUE,
                              step(ENGINES[handle], ticks, wall, overflow_checks))
    /\ UNCHANGED <<NEXT_HANDLE, disposed>>
    /\ UNCHANGED thread_vars
    /\ UNCHANGED core_vars

\* gs_get_state
GsGetState ==
    /\ Live
    /\ \E handle \in Handles : with_engine("gs_get_state", handle)
    /\ UNCHANGED <<NEXT_HANDLE, disposed>>
    /\ UNCHANGED thread_vars
    /\ UNCHANGED core_vars

\* gs_load_scenario
GsLoadScenario ==
    /\ Live
    /\ \E handle \in Handles, scenario_json \in GsScenarioArgs :
          with_engine_mut("gs_load_scenario", handle, scenario_json # None,
                          load_scenario(ENGINES[handle], Unwrap(scenario_json)))
    /\ UNCHANGED <<NEXT_HANDLE, disposed>>
    /\ UNCHANGED thread_vars
    /\ UNCHANGED core_vars

\* gs_save_scenario
GsSaveScenario ==
    /\ Live
    /\ \E handle \in Handles : with_engine("gs_save_scenario", handle)
    /\ UNCHANGED <<NEXT_HANDLE, disposed>>
    /\ UNCHANGED thread_vars
    /\ UNCHANGED core_vars

\* gs_snapshot
GsSnapshot ==
    /\ Live
    /\ \E handle \in Handles : with_engine("gs_snapshot", handle)
    /\ UNCHANGED <<NEXT_HANDLE, disposed>>
    /\ UNCHANGED thread_vars
    /\ UNCHANGED core_vars

\* gs_restore_snapshot
GsRestoreSnapshot ==
    /\ Live
    /\ \E handle \in Handles, snapshot_json \in GsSnapshotArgs :
          with_engine_mut("gs_restore_snapshot", handle, snapshot_json # None,
                          restore_snapshot(ENGINES[handle], Unwrap(snapshot_json)))
    /\ UNCHANGED <<NEXT_HANDLE, disposed>>
    /\ UNCHANGED thread_vars
    /\ UNCHANGED core_vars

\* the engine the host drives directly is not used by the callers of ffi.rs
InitFfi == Initialized({BaseConfig})

NextFfi ==
    \/ GsInitialize \/ GsDispose \/ GsSetConfig \/ GsApplyEdit \/ GsStep
    \/ GsGetState \/ GsLoadScenario \/ GsSaveScenario \/ GsSnapshot
    \/ GsRestoreSnapshot

\* callers of the C interface: each gs_ call holds the registry lock from its
\* lookup to its return, so the calls of all threads happen one at a time
SpecFfi == InitFfi /\ [][NextFfi]_vars

\* ------------------------------------------------------------------ threads
\* a faulty counter: the value is handed out and the sum is not stored
fetch_add_unstored(value, n) == [returned |-> value, stored |-> value]

\* AtomicU64::fetch_add: what it returns and what it leaves in the counter
fetch_add(value, n) == [returned |-> value, stored |-> value + n]

\* a Mutex that lets a thread in while another is inside
MayLockAlways(holder) == TRUE

\* Mutex::lock returns when no thread holds the Mutex
MayLock(holder) == holder = 0

\* no call has aborted the process
Alive == \A t \in Threads : threads[t].error # "abort"

\* thread t may begin a call; the threads are alike, and they are numbered in
\* the order of their first calls
CanCall(t) ==
    /\ Alive
    /\ calls < MaxCalls
    /\ threads[t].pc \in {"idle", "returned"}
    /\ \A u \in 1..(t - 1) : threads[u].pc # "idle"

\* the arguments the threads pass: one that the call accepts, one that the
\* engine rejects where there is one, and a text that does not parse
ThreadConfigArgs == {Some(BaseConfig), None}
ThreadBodiesArgs == {Some(PairBodies), Some(<<PairBodies[1], PairBodies[1]>>)}
ThreadEditArgs ==
    {Some([kind |-> "Create",
           body |-> NewBody(IdZ, One, One \div 10, Vec(0, 0 - 3 * One), ZERO)]),
     Some([kind |-> "Delete", id |-> IdZ])}
ThreadSnapshotArgs ==
    {Some([schema_version |-> <<"1", ".", "0">>,
           created_at |-> deterministic_timestamp_iso8601,
           tick |-> TickModulus - 1, sim_time |-> 0,
           config_hash |-> stable_hash(BaseConfig), bodies |-> MergeBodies])}

\* the handles the threads pass: those gs_initialize can issue
ThreadHandles == 1..MaxHandles

\* thread t stands at pc
Stands(t, pc, entry) ==
    threads' = [threads EXCEPT ![t] = [entry EXCEPT !.pc = pc]]

\* thread t returns from its call, dropping the guard of ENGINES if it holds it
Leaves(t, ok, error, removed, state) ==
    /\ Stands(t, "returned",
              [threads[t] EXCEPT !.ok = ok, !.error = error, !.removed = removed,
                                 !.state = state, !.held = None])
    /\ lock' = IF lock = t THEN 0 ELSE lock

\* gs_initialize up to NEXT_HANDLE.fetch_add: the arguments are parsed, the
\* engine is built and the handle is taken, all before the registry is locked
GsInitializeEnter(t) ==
    /\ CanCall(t)
    /\ NEXT_HANDLE <= MaxHandles
    /\ calls' = calls + 1
    /\ \E config_json \in ThreadConfigArgs, bodies_json \in ThreadBodiesArgs :
          CASE config_json = None \/ bodies_json = None ->
                  /\ Leaves(t, FALSE, ParseFailed, FALSE, None)
                  /\ UNCHANGED NEXT_HANDLE
            [] with_bodies_outcome(Unwrap(config_json), Unwrap(bodies_json)) # "ok" ->
                  /\ Leaves(t, FALSE,
                            with_bodies_outcome(Unwrap(config_json), Unwrap(bodies_json)),
                            FALSE, None)
                  /\ UNCHANGED NEXT_HANDLE
            [] OTHER ->
                  /\ Stands(t, "fetched",
                        [NoCall EXCEPT
                           !.call = "gs_initialize",
                           !.handle = fetch_add(NEXT_HANDLE, 1).returned,
                           !.held = Some(with_bodies(Unwrap(config_json),
                                                     Unwrap(bodies_json)))])
                  /\ NEXT_HANDLE' = fetch_add(NEXT_HANDLE, 1).stored
                  /\ UNCHANGED lock
    /\ UNCHANGED <<ENGINES, response, disposed, issued>>
    /\ UNCHANGED core_vars

\* gs_initialize from ENGINES.lock() on: the engine goes into the registry under
\* the handle taken, in place of whatever the registry held there
GsInitializeRegister(t) ==
    /\ Alive
    /\ threads[t].pc = "fetched"
    /\ MayLock(lock)
    /\ ENGINES' = [h \in DOMAIN ENGINES \cup {threads[t].handle} |->
                      IF h = threads[t].handle THEN Unwrap(threads[t].held)
                      ELSE ENGINES[h]]
    /\ Leaves(t, TRUE, "", FALSE, Some(get_state(Unwrap(threads[t].held))))
    /\ issued' = Append(issued, threads[t].handle)
    /\ UNCHANGED <<NEXT_HANDLE, response, disposed, calls>>
    /\ UNCHANGED core_vars

\* the calls that lock the registry first
LockingCalls ==
    {"gs_dispose", "gs_set_config", "gs_apply_edit", "gs_step", "gs_get_state",
     "gs_restore_snapshot"}

\* a thread calls one of the functions that lock the registry first
GsCall(t) ==
    /\ CanCall(t)
    /\ calls' = calls + 1
    /\ \E call \in LockingCalls, handle \in ThreadHandles :
          Stands(t, "called",
                 [NoCall EXCEPT !.call = call, !.handle = handle,
                                !.ticks = IF call = "gs_step" THEN 1 ELSE 0])
    /\ UNCHANGED <<ENGINES, NEXT_HANDLE, response, disposed, lock, issued>>
    /\ UNCHANGED core_vars

\* ENGINES.lock() and the lookup of with_engine and with_engine_mut: the thread
\* holds the guard and, for a registered handle, the reference to the engine
LockRegistry(t) ==
    /\ Alive
    /\ threads[t].pc = "called"
    /\ MayLock(lock)
    /\ lock' = t
    /\ Stands(t, "locked",
              [threads[t] EXCEPT !.held = IF threads[t].handle \in DOMAIN ENGINES
                                          THEN Some(ENGINES[threads[t].handle])
                                          ELSE None])
    /\ UNCHANGED <<ENGINES, NEXT_HANDLE, response, disposed, calls, issued>>
    /\ UNCHANGED core_vars

\* thread t holds the guard inside call
Inside(t, call) ==
    /\ Alive
    /\ threads[t].pc = "locked"
    /\ threads[t].call = call

\* the registry after a write through the reference a thread holds
Written(handle, eng) ==
    IF handle \in DOMAIN ENGINES THEN [ENGINES EXCEPT ![handle] = eng] ELSE ENGINES

\* with_engine_mut after the lookup, around an action that parses its argument
\* and calls the engine: res is what the engine call leaves and returns
with_engine_mut_locked(t, parsed, res) ==
    CASE threads[t].held = None ->
            /\ Leaves(t, FALSE, HandleNotFound, FALSE, None)
            /\ UNCHANGED ENGINES
      [] ~parsed ->
            /\ Leaves(t, FALSE, ParseFailed, FALSE, None)
            /\ UNCHANGED ENGINES
      [] res.outcome = "panic" ->
            /\ Leaves(t, FALSE, "abort", FALSE, None)
            /\ ENGINES' = Written(threads[t].handle, res.engine)
      [] res.outcome # "ok" ->
            /\ Leaves(t, FALSE, res.outcome, FALSE, None)
            /\ ENGINES' = Written(threads[t].handle, res.engine)
      [] OTHER ->
            /\ Leaves(t, TRUE, "", FALSE, Some(get_state(res.engine)))
            /\ ENGINES' = Written(threads[t].handle, res.engine)

\* gs_dispose under the guard
GsDisposeLocked(t) ==
    /\ Inside(t, "gs_dispose")
    /\ ENGINES' = [h \in DOMAIN ENGINES \ {threads[t].handle} |-> ENGINES[h]]
    /\ disposed' = IF threads[t].handle \in DOMAIN ENGINES
                   THEN disposed \cup {threads[t].handle} ELSE disposed
    /\ Leaves(t, TRUE, "", threads[t].handle \in DOMAIN ENGINES, None)
    /\ UNCHANGED <<NEXT_HANDLE, response, calls, issued>>
    /\ UNCHANGED core_vars

\* gs_set_config under the guard
GsSetConfigLocked(t) ==
    /\ Inside(t, "gs_set_config")
    /\ \E config_json \in ThreadConfigArgs :
          with_engine_mut_locked(t, config_json # None,
              set_config(Unwrap(threads[t].held), Unwrap(config_json)))
    /\ UNCHANGED <<NEXT_HANDLE, response, disposed, calls, issued>>
    /\ UNCHANGED core_vars

\* gs_apply_edit under the guard
GsApplyEditLocked(t) ==
    /\ Inside(t, "gs_apply_edit")
    /\ \E edit_json \in ThreadEditArgs :
          with_engine_mut_locked(t, edit_json # None,
              apply_edit(Unwrap(threads[t].held), Unwrap(edit_json)))
    /\ UNCHANGED <<NEXT_HANDLE, response, disposed, calls, issued>>
    /\ UNCHANGED core_vars

\* the builds differ only where the tick of the engine held would pass its width
OverflowChecksHeld(held, ticks) ==
    IF held # None /\ Unwrap(held).tick + ticks >= TickModulus
    THEN BOOLEAN ELSE {FALSE}

\* gs_step under the guard
GsStepLocked(t) ==
    /\ Inside(t, "gs_step")
    /\ \E wall \in 0..MaxWall :
          \E overflow_checks \in OverflowChecksHeld(threads[t].held, threads[t].ticks) :
              with_engine_mut_locked(t, TRUE,
                  step(Unwrap(threads[t].held), threads[t].ticks, wall,
                       overflow_checks))
    /\ UNCHANGED <<NEXT_HANDLE, response, disposed, calls, issued>>
    /\ UNCHANGED core_vars

\* gs_get_state under the guard
GsGetStateLocked(t) ==
    /\ Inside(t, "gs_get_state")
    /\ IF threads[t].held = None
       THEN Leaves(t, FALSE, HandleNotFound, FALSE, None)
       ELSE Leaves(t, TRUE, "", FALSE, Some(get_state(Unwrap(threads[t].held))))
    /\ UNCHANGED <<ENGINES, NEXT_HANDLE, response, disposed, calls, issued>>
    /\ UNCHANGED core_vars

\* gs_restore_snapshot under the guard
GsRestoreSnapshotLocked(t) ==
    /\ Inside(t, "gs_restore_snapshot")
    /\ \E snapshot_json \in ThreadSnapshotArgs :
          with_engine_mut_locked(t, snapshot_json # None,
              restore_snapshot(Unwrap(threads[t].held), Unwrap(snapshot_json)))
    /\ UNCHANGED <<NEXT_HANDLE, response, disposed, calls, issued>>
    /\ UNCHANGED core_vars

InitThreads == Initialized({BaseConfig})

NextThreads ==
    \E t \in Threads :
        \/ GsInitializeEnter(t) \/ GsInitializeRegister(t) \/ GsCall(t)
        \/ LockRegistry(t) \/ GsDisposeLocked(t) \/ GsSetConfigLocked(t)
        \/ GsApplyEditLocked(t) \/ GsStepLocked(t) \/ GsGetStateLocked(t)
        \/ GsRestoreSnapshotLocked(t)

\* MaxThreads threads that call the C interface at the same time: a thread in
\* a call takes its steps between the steps of the others
SpecThreads == InitThreads /\ [][NextThreads]_vars

\* ------------------------------------------------------------------ claims
\* C1: two engines built by with_bodies from equal config and equal bodies and
\* driven by the same sequence of step(n) calls return equal snapshot() values,
\* whatever the wall clock of each call read.
C1_Determinism == snapshot(Self) = snapshot(replica)

\* both engines made two calls, the last one moved the bodies and was timed
C1_Witness ==
    /\ ops = 2
    /\ last.op = "step" /\ last.outcome = "ok" /\ last.arg = 2
    /\ last.summary.step_wall_time_micros # MaxWall - last.summary.step_wall_time_micros
    /\ bodies # pre.bodies
    /\ sim_time # pre.sim_time

\* C2: after any call to step that returns Ok, for any ticks value including 0
\* and from any state the public operations reach, every stored body's
\* position and velocity are finite.
C2_FiniteAfterStep ==
    (last.op = "step" /\ last.outcome = "ok") =>
        \A k \in DOMAIN bodies : ensure_finite_body(bodies[k])

\* C3: in every reachable state no two stored bodies have the same id.
C3_UniqueIds ==
    \A i, j \in DOMAIN bodies : bodies[i].id = bodies[j].id => i = j

\* a create-edit with an id already stored was made on a list of bodies
C3_Witness ==
    /\ last.op = "apply_edit"
    /\ last.arg.kind = "Create"
    /\ BodyValidate(last.arg.body) = "ok"
    /\ \E k \in DOMAIN pre.bodies : pre.bodies[k].id = last.arg.body.id
    /\ last.outcome = "DuplicateBodyId"

\* C4: in every reachable state every stored body satisfies Body::validate,
\* also after an apply_edit that returned an error and after inelastic merges.
C4_BodiesValid ==
    \A k \in DOMAIN bodies : BodyValidate(bodies[k]) = "ok"

C6_TickAdvance ==
    /\ (last.op = "step" /\ last.outcome = "ok" /\ last.arg >= 1) =>
          /\ tick = pre.tick + last.arg
          /\ last.summary.ticks_applied = last.arg
          /\ last.summary.final_tick = tick
    /\ last.op = "step" => tick >= pre.tick

\* C7: step(0) returns Ok with final_tick and sim_time current and every other
\* counter of the summary, max_body_count included, 0 and warnings empty,
\* whatever the number of stored bodies; the engine is not changed.
C7_ZeroSummary ==
    (last.op = "step" /\ last.arg = 0) =>
        /\ last.outcome = "ok"
        /\ last.summary = [StepSummaryDefault EXCEPT !.final_tick = tick,
                                                     !.sim_time = sim_time]
        /\ Self = pre

\* C7, amended: as above, but max_body_count is the number of stored bodies.
C7_ZeroTickSummary ==
    (last.op = "step" /\ last.arg = 0) =>
        /\ last.outcome = "ok"
        /\ last.summary = [StepSummaryDefault EXCEPT !.final_tick = tick,
                                                     !.sim_time = sim_time,
                                                     !.max_body_count = Len(bodies)]
        /\ Self = pre

\* step(0) on an engine that holds bodies and has a tick and a time to report
C7_Witness ==
    /\ last.op = "step" /\ last.arg = 0
    /\ last.outcome = "ok"
    /\ Len(bodies) = 3
    /\ tick > 0 /\ sim_time > 0

\* C8: a successful step(n) under gravity_solver = Auto, with any integrator and
\* collision mode: if barnes_hut_threshold <= the number of alive bodies when
\* step is called then barnes_hut_ticks = n and pairwise_ticks = 0, and if
\* barnes_hut_threshold > that number then pairwise_ticks = n and
\* barnes_hut_ticks = 0.
C8_AutoCounters ==
    (last.op = "step" /\ last.outcome = "ok" /\ pre.config.gravity_solver = "Auto") =>
        IF pre.config.barnes_hut_threshold <= AliveCount(pre.bodies)
        THEN last.summary.barnes_hut_ticks = last.arg /\ last.summary.pairwise_ticks = 0
        ELSE last.summary.pairwise_ticks = last.arg /\ last.summary.barnes_hut_ticks = 0

\* C8, amended: the first case asks for barnes_hut_threshold <= the number of
\* alive bodies at the start of every one of the n ticks.
C8_AutoCountersPerTick ==
    (last.op = "step" /\ last.outcome = "ok" /\ pre.config.gravity_solver = "Auto") =>
        /\ (\A k \in DOMAIN last.trace :
               pre.config.barnes_hut_threshold <= AliveCount(last.trace[k].start)) =>
              last.summary.barnes_hut_ticks = last.arg /\ last.summary.pairwise_ticks = 0
        /\ pre.config.barnes_hut_threshold > AliveCount(pre.bodies) =>
              last.summary.pairwise_ticks = last.arg /\ last.summary.barnes_hut_ticks = 0

\* an Auto step whose tick merged two bodies and started at the threshold
C8_Witness ==
    /\ last.op = "step" /\ last.outcome = "ok" /\ last.arg >= 1
    /\ pre.config.gravity_solver = "Auto"
    /\ pre.config.barnes_hut_threshold = AliveCount(pre.bodies)
    /\ last.summary.merged_events > 0
    /\ last.summary.barnes_hut_ticks = last.arg

\* the ids of the alive bodies, in the order they are stored
AliveIds(bs) == [k \in DOMAIN SelectSeq(bs, IsAlive) |-> SelectSeq(bs, IsAlive)[k].id]

\* no two alive bodies are within the sum of their radii
NoContact(bs) ==
    \A i, j \in DOMAIN bs :
        (i < j /\ bs[i].alive /\ bs[j].alive) =>
            FGt[norm[VSub[bs[j].position, bs[i].position]],
                FAdd[bs[i].radius, bs[j].radius]]

\* C9: a successful step(n), under any collision mode, during whose ticks no
\* two alive bodies come within the sum of their radii leaves the sequence of
\* the ids of the alive bodies as it was: same ids, same order.
C9_AliveIdsKept ==
    (/\ last.op = "step" /\ last.outcome = "ok"
     /\ \A k \in DOMAIN last.trace : NoContact(last.trace[k].integrated)) =>
        AliveIds(bodies) = AliveIds(pre.bodies)

\* two ticks without contact in merge mode, which dropped a body that was
\* stored as not alive
C9_Witness ==
    /\ last.op = "step" /\ last.outcome = "ok" /\ last.arg = 2
    /\ \A k \in DOMAIN last.trace : NoContact(last.trace[k].integrated)
    /\ pre.config.collision_mode = "InelasticMerge"
    /\ Len(bodies) < Len(pre.bodies)
    /\ Len(bodies) >= 2

RECURSIVE AliveMassFrom(_, _)
\* the sum of the masses of the alive bodies from the k-th on
AliveMassFrom(bs, k) ==
    IF k > Len(bs) THEN 0
    ELSE FAdd[IF bs[k].alive THEN bs[k].mass ELSE 0, AliveMassFrom(bs, k + 1)]

\* C10: in InelasticMerge mode the masses of the alive bodies sum to the same
\* after a collision-resolution pass as before it, whatever the number of
\* merges in the pass, chains included; a merge sets the survivor's mass to the
\* sum of the two masses.
C10_MassConserved ==
    pre.config.collision_mode = "InelasticMerge" =>
        \A k \in DOMAIN last.trace :
            /\ AliveMassFrom(last.trace[k].resolved, 1)
                   = AliveMassFrom(last.trace[k].integrated, 1)
            /\ \A i, j \in DOMAIN last.trace[k].integrated :
                  (/\ i < j
                   /\ last.trace[k].integrated[i].alive
                   /\ last.trace[k].integrated[j].alive) =>
                      /\ apply_inelastic_merge(last.trace[k].integrated, i, j)[i].mass
                           = FAdd[last.trace[k].integrated[i].mass,
                                  last.trace[k].integrated[j].mass]
                      /\ ~apply_inelastic_merge(last.trace[k].integrated, i, j)[j].alive

\* a pass in which one body absorbed two others
C10_Witness ==
    /\ last.op = "step" /\ last.outcome = "ok"
    /\ pre.config.collision_mode = "InelasticMerge"
    /\ \E k \in DOMAIN last.trace :
          /\ last.trace[k].stats.merges = 2
          /\ Len(last.trace[k].integrated) = 3
          /\ Len(last.trace[k].resolved) = 1
          /\ last.trace[k].resolved[1].mass
                = FAdd[FAdd[ChainBodies[1].mass, ChainBodies[2].mass], ChainBodies[3].mass]

\* C11: a successful step(n) in InelasticMerge mode, from any reachable state,
\* leaves as many alive bodies as there were before the call less
\* merged_events, and collision_events = merged_events: every counted merge
\* removes exactly one body.
C11_MergeAccounting ==
    (/\ last.op = "step" /\ last.outcome = "ok"
     /\ pre.config.collision_mode = "InelasticMerge") =>
        /\ AliveCount(bodies) = AliveCount(pre.bodies) - last.summary.merged_events
        /\ last.summary.collision_events = last.summary.merged_events

\* C12: apply_edit returns DuplicateBodyId for a Create of a valid body whose
\* id a stored body has, BodyNotFound for an Update or a Delete naming an id no
\* stored body has, InvalidBody for a Create of a body that fails validation
\* and for an Update whose result fails validation, and Ok in every other case.
C12_EditErrors ==
    last.op = "apply_edit" =>
        last.outcome =
            CASE last.arg.kind = "Create" ->
                    IF BodyValidate(last.arg.body) # "ok" THEN "InvalidBody"
                    ELSE IF \E k \in DOMAIN pre.bodies :
                                pre.bodies[k].id = last.arg.body.id
                         THEN "DuplicateBodyId" ELSE "ok"
              [] last.arg.kind = "Update" ->
                    IF \A k \in DOMAIN pre.bodies : pre.bodies[k].id # last.arg.update.id
                    THEN "BodyNotFound"
                    ELSE IF \E k \in DOMAIN bodies :
                                /\ bodies[k].id = last.arg.update.id
                                /\ BodyValidate(bodies[k]) # "ok"
                         THEN "InvalidBody" ELSE "ok"
              [] OTHER ->
                    IF \A k \in DOMAIN pre.bodies : pre.bodies[k].id # last.arg.id
                    THEN "BodyNotFound" ELSE "ok"

\* a Delete naming an id that no stored body has, on an engine with bodies
C12_Witness ==
    /\ last.op = "apply_edit" /\ last.arg.kind = "Delete"
    /\ pre.bodies # <<>>
    /\ \A k \in DOMAIN pre.bodies : pre.bodies[k].id # last.arg.id
    /\ last.outcome = "BodyNotFound"

\* C13: a restore_snapshot that succeeds leaves tick, sim_time and bodies equal
\* to the snapshot's and the config as it was, whatever config_hash the
\* snapshot carries; one that fails, with SchemaValidationFailed,
\* DuplicateBodyId or InvalidBody, leaves tick, sim_time, bodies and config as
\* they were.
C13_RestoreSnapshot ==
    last.op = "restore_snapshot" =>
        IF last.outcome = "ok"
        THEN /\ tick = last.arg.tick
             /\ sim_time = last.arg.sim_time
             /\ bodies = last.arg.bodies
             /\ config = pre.config
        ELSE /\ last.outcome \in {"SchemaValidationFailed", "DuplicateBodyId", "InvalidBody"}
             /\ Self = pre

\* a snapshot taken under another config restored into an engine that had
\* stepped
C13_Witness ==
    /\ last.op = "restore_snapshot" /\ last.outcome = "ok"
    /\ last.arg.config_hash # stable_hash(pre.config)
    /\ pre.tick > 0 /\ pre.tick # last.arg.tick
    /\ pre.bodies # last.arg.bodies

\* a version string of the form "1.x": major version 1
MajorIsOne(v) == Len(v) >= 3 /\ v[1] = "1" /\ v[2] = "."

\* C14: restore_snapshot and load_scenario return SchemaValidationFailed and
\* leave the engine unchanged for every schema_version that is not of the form
\* "1.x", such as "2.0", "10.0" or "", and accept every version of that form.
C14_SchemaGate ==
    last.op \in {"restore_snapshot", "load_scenario"} =>
        IF MajorIsOne(last.arg.schema_version)
        THEN last.outcome # "SchemaValidationFailed"
        ELSE last.outcome = "SchemaValidationFailed" /\ Self = pre

\* C15: a load_scenario that succeeds leaves config and bodies equal to the
\* scenario's and tick and sim_time 0; one that fails, on the schema, the
\* config, a duplicate id or an invalid body, leaves config, bodies, tick and
\* sim_time as they were; so load_scenario(save_scenario()) on an engine whose
\* bodies are valid keeps config and bodies and resets tick and sim_time.
C15_LoadScenario ==
    last.op = "load_scenario" =>
        /\ IF last.outcome = "ok"
           THEN /\ config = last.arg.engine_config
                /\ bodies = last.arg.bodies
                /\ tick = 0
                /\ sim_time = 0
           ELSE /\ last.outcome \in {"SchemaValidationFailed", "InvalidConfig",
                                     "DuplicateBodyId", "InvalidBody"}
                /\ Self = pre
        /\ (/\ last.arg = save_scenario(pre)
            /\ \A k \in DOMAIN pre.bodies : BodyValidate(pre.bodies[k]) = "ok") =>
              /\ last.outcome = "ok"
              /\ Self = [pre EXCEPT !.tick = 0, !.sim_time = 0]

\* an engine that had stepped loads the scenario it saved
C15_Witness ==
    /\ last.op = "load_scenario" /\ last.outcome = "ok"
    /\ last.arg = save_scenario(pre)
    /\ pre.tick > 0 /\ pre.sim_time > 0
    /\ pre.bodies # <<>>
    /\ tick = 0 /\ sim_time = 0

RECURSIVE ClockAfter(_, _, _)
\* the sim_time that the first k ticks of a trace leave, starting at from
ClockAfter(from, trace, k) ==
    IF k = 0 THEN from ELSE FAdd[ClockAfter(from, trace, k - 1), trace[k].dt_used]

\* C16: when step(n) returns NumericalInstability raised in iteration k, every
\* body's position and velocity, the tick and the sim_time are those that
\* iteration k-1 left: no body carries a value the failing iteration wrote.
C16_FailingStep ==
    (/\ last.op = "step" /\ last.outcome = "NumericalInstability"
     /\ Len(last.trace) < last.arg) =>
        /\ Len(bodies) = Len(IF last.trace = <<>> THEN pre.bodies
                             ELSE last.trace[Len(last.trace)].resolved)
        /\ \A k \in DOMAIN bodies :
              /\ bodies[k].position =
                    (IF last.trace = <<>> THEN pre.bodies
                     ELSE last.trace[Len(last.trace)].resolved)[k].position
              /\ bodies[k].velocity =
                    (IF last.trace = <<>> THEN pre.bodies
                     ELSE last.trace[Len(last.trace)].resolved)[k].velocity
        /\ tick = (pre.tick + Len(last.trace)) % TickModulus
        /\ sim_time = ClockAfter(pre.sim_time, last.trace, Len(last.trace))

\* C17: after gs_dispose(h) has removed an engine, every later gs_step,
\* gs_get_state, gs_set_config, gs_apply_edit, gs_snapshot, gs_restore_snapshot,
\* gs_load_scenario and gs_save_scenario on h returns ok:false reporting that
\* the handle was not found; a second gs_dispose(h) returns ok:true with
\* removed = false; a core error inside a call is returned as ok:false while
\* the engine stays registered under its handle.
C17_HandleLifecycle ==
    /\ (response.after_dispose /\ response.call \notin {"gs_dispose", "gs_initialize"}) =>
          ~response.ok /\ response.error = HandleNotFound
    /\ (response.after_dispose /\ response.call = "gs_dispose") =>
          response.ok /\ ~response.removed
    /\ response.error \in {"InvalidConfig", "InvalidBody", "DuplicateBodyId",
                           "BodyNotFound", "SchemaValidationFailed",
                           "NumericalInstability"} =>
          /\ ~response.ok
          /\ response.call = "gs_initialize" \/ response.handle \in DOMAIN ENGINES
    /\ disposed \cap DOMAIN ENGINES = {}

\* a handle was issued, disposed of, and then used in a call to step
C17_Witness ==
    /\ response.call = "gs_step"
    /\ response.after_dispose
    /\ response.handle \in disposed
    /\ ~response.ok
    /\ calls = 3

\* the positions and the velocities of the bodies, in stored order
PositionsOf(bs) == Collect([k \in 1..Len(bs) |-> bs[k].position])
VelocitiesOf(bs) == Collect([k \in 1..Len(bs) |-> bs[k].velocity])

\* the accelerations the solver gives the bodies bs placed at positions
AccelerationsAt(bs, positions, cfg) ==
    compute_accelerations_with_config(bs, positions, cfg).accelerations

\* semi_implicit_euler_step: what it writes to body i, from the bodies bs at
\* the start of the tick
EulerWritten(bs, cfg, dt, i) ==
    [bs[i] EXCEPT
       !.velocity = VAdd[@, VMul[AccelerationsAt(bs, PositionsOf(bs), cfg)[i], dt]],
       !.position =
           VAdd[@, VMul[VAdd[bs[i].velocity,
                             VMul[AccelerationsAt(bs, PositionsOf(bs), cfg)[i], dt]],
                        dt]]]

\* velocity_verlet_step: predicted_positions, from the bodies bs at the start
\* of the tick
VerletPredicted(bs, cfg, dt) ==
    Collect([k \in 1..Len(bs) |->
        IF ~bs[k].alive THEN bs[k].position
        ELSE VAdd[VAdd[bs[k].position, VMul[bs[k].velocity, dt]],
                  VMul[AccelerationsAt(bs, PositionsOf(bs), cfg)[k],
                       FMul[FMul[One \div 2, dt], dt]]]])

\* velocity_verlet_step: what it writes to body i
VerletWritten(bs, cfg, dt, i) ==
    [bs[i] EXCEPT
       !.position = VerletPredicted(bs, cfg, dt)[i],
       !.velocity =
           VAdd[@, VMul[VAdd[AccelerationsAt(bs, PositionsOf(bs), cfg)[i],
                             AccelerationsAt(bs, VerletPredicted(bs, cfg, dt), cfg)[i]],
                        FMul[One \div 2, dt]]]]

\* rk4_step: k2p .. k4v, from the bodies bs at the start of the tick
Rk4K2p(bs, cfg, dt) ==
    Rk4Advance(VelocitiesOf(bs), AccelerationsAt(bs, PositionsOf(bs), cfg),
               FMul[One \div 2, dt])
Rk4K2v(bs, cfg, dt) ==
    AccelerationsAt(bs, Rk4Advance(PositionsOf(bs), VelocitiesOf(bs),
                                   FMul[One \div 2, dt]), cfg)
Rk4K3p(bs, cfg, dt) ==
    Rk4Advance(VelocitiesOf(bs), Rk4K2v(bs, cfg, dt), FMul[One \div 2, dt])
Rk4K3v(bs, cfg, dt) ==
    AccelerationsAt(bs, Rk4Advance(PositionsOf(bs), Rk4K2p(bs, cfg, dt),
                                   FMul[One \div 2, dt]), cfg)
Rk4K4p(bs, cfg, dt) ==
    Rk4Advance(VelocitiesOf(bs), Rk4K3v(bs, cfg, dt), dt)
Rk4K4v(bs, cfg, dt) ==
    AccelerationsAt(bs, Rk4Advance(PositionsOf(bs), Rk4K3p(bs, cfg, dt), dt), cfg)

\* rk4_step: what it writes to body i
Rk4Written(bs, cfg, dt, i) ==
    [bs[i] EXCEPT
       !.position =
           VAdd[@, Rk4Slope(bs[i].velocity, Rk4K2p(bs, cfg, dt)[i],
                            Rk4K3p(bs, cfg, dt)[i], Rk4K4p(bs, cfg, dt)[i], dt)],
       !.velocity =
           VAdd[@, Rk4Slope(AccelerationsAt(bs, PositionsOf(bs), cfg)[i],
                            Rk4K2v(bs, cfg, dt)[i], Rk4K3v(bs, cfg, dt)[i],
                            Rk4K4v(bs, cfg, dt)[i], dt)]]

\* what the integrator of cfg writes to body i of the bodies bs, every
\* acceleration taken from the bodies as they were at the start of the tick
WrittenFromStart(bs, cfg, dt, i) ==
    CASE ~bs[i].alive -> bs[i]
      [] cfg.integrator = "SemiImplicitEuler" -> EulerWritten(bs, cfg, dt, i)
      [] cfg.integrator = "VelocityVerlet" -> VerletWritten(bs, cfg, dt, i)
      [] OTHER -> Rk4Written(bs, cfg, dt, i)

\* one completed tick of a step keeps the order of its stages
StagesInOrder(cfg, entry) ==
    /\ Len(entry.integrated) = Len(entry.start)
    /\ \A i \in DOMAIN entry.start :
          entry.integrated[i] = WrittenFromStart(entry.start, cfg, entry.dt_used, i)
    /\ cfg.collision_mode = "Ignore" =>
          entry.resolved = entry.integrated /\ entry.stats.collisions = 0
    /\ cfg.collision_mode # "Ignore" =>
          /\ entry.stats.collisions = 0 <=> NoContact(entry.integrated)
          /\ NoContact(entry.integrated) =>
                entry.resolved =
                    IF cfg.collision_mode = "InelasticMerge"
                    THEN SelectSeq(entry.integrated, IsAlive)
                    ELSE entry.integrated

RECURSIVE CollisionsIn(_, _)
\* the collisions of the first k ticks of a trace
CollisionsIn(trace, k) ==
    IF k = 0 THEN 0 ELSE CollisionsIn(trace, k - 1) + trace[k].stats.collisions

\* C18: within a tick every acceleration evaluation of the integrator, of each
\* of the three integrators, is completed before any position or velocity is
\* written, so every written value derives from the bodies as they were at the
\* start of the tick; collision resolution starts after all integrator writes
\* and works on the written positions; and the summary counters, the tick and
\* sim_time are updated after collision resolution, from its results.
C18_StageOrder ==
    last.op = "step" =>
        /\ \A k \in DOMAIN last.trace : StagesInOrder(pre.config, last.trace[k])
        /\ \A k \in DOMAIN last.trace :
              last.trace[k].start =
                  IF k = 1 THEN pre.bodies ELSE last.trace[k - 1].resolved
        /\ last.outcome = "ok" /\ last.arg > 0 =>
              /\ bodies = last.trace[Len(last.trace)].resolved
              /\ last.summary.collision_events
                     = CollisionsIn(last.trace, Len(last.trace))
              /\ last.summary.ticks_applied = Len(last.trace)
              /\ tick = (pre.tick + Len(last.trace)) % TickModulus
              /\ sim_time = ClockAfter(pre.sim_time, last.trace, Len(last.trace))

\* a tick, under RK4 with collisions on, that started with two bodies in
\* contact, whose written positions are apart, and that counted no collision
C18_Witness ==
    /\ last.op = "step" /\ last.outcome = "ok"
    /\ pre.config.integrator = "Rk4"
    /\ pre.config.collision_mode # "Ignore"
    /\ \E k \in DOMAIN last.trace :
          /\ ~NoContact(last.trace[k].start)
          /\ NoContact(last.trace[k].integrated)
          /\ last.trace[k].stats.collisions = 0

RECURSIVE BarnesHutTicksIn(_, _)
\* the number of the first k ticks of a trace that used Barnes-Hut
BarnesHutTicksIn(trace, k) ==
    IF k = 0 THEN 0
    ELSE BarnesHutTicksIn(trace, k - 1) + (IF trace[k].used_barnes_hut THEN 1 ELSE 0)

\* the tick started with enough alive bodies for the configured solver to take
\* the tree
TreeAtStart(cfg, entry) ==
    \/ cfg.gravity_solver = "BarnesHut" /\ AliveCount(entry.start) >= 2
    \/ cfg.gravity_solver = "Auto"
         /\ AliveCount(entry.start) >= cfg.barnes_hut_threshold

\* C19: every applied tick increments exactly one of pairwise_ticks and
\* barnes_hut_ticks, so after a successful step they sum to ticks_applied; a
\* tick counts as Barnes-Hut exactly when gravity_solver = BarnesHut with at
\* least 2 bodies alive at the start of the tick, or gravity_solver = Auto with
\* at least barnes_hut_threshold bodies alive at the start of the tick; all
\* solver calls of a tick choose the same mode; last_solver_mode names the mode
\* of the last tick.
C19_SolverAccounting ==
    last.op = "step" =>
        /\ \A k \in DOMAIN last.trace :
              /\ last.trace[k].used_barnes_hut <=> TreeAtStart(pre.config, last.trace[k])
              /\ AliveCount(last.trace[k].integrated) = AliveCount(last.trace[k].start)
              /\ compute_accelerations_with_config(last.trace[k].start,
                     PositionsOf(last.trace[k].integrated), pre.config).mode
                   = compute_accelerations(last.trace[k].start, pre.config).mode
        /\ last.outcome = "ok" =>
              /\ last.summary.ticks_applied = last.arg
              /\ last.summary.pairwise_ticks + last.summary.barnes_hut_ticks
                     = last.summary.ticks_applied
              /\ last.summary.barnes_hut_ticks
                     = BarnesHutTicksIn(last.trace, Len(last.trace))
              /\ last.arg > 0 =>
                    last.summary.last_solver_mode =
                        IF last.trace[Len(last.trace)].used_barnes_hut
                        THEN "barnesHut" ELSE "pairwise"

\* a successful step of two ticks under gravity_solver = BarnesHut, each of
\* them started with two bodies alive and counted as Barnes-Hut
C19_Witness ==
    /\ last.op = "step" /\ last.outcome = "ok"
    /\ pre.config.gravity_solver = "BarnesHut"
    /\ last.summary.ticks_applied = 2
    /\ last.summary.barnes_hut_ticks = 2
    /\ AliveCount(last.trace[2].start) = 2

\* the ids of the bodies, in stored order
IdsOf(bs) == [k \in DOMAIN bs |-> bs[k].id]

RECURSIVE IsSubsequence(_, _)
\* s can be had from t by dropping elements of t
IsSubsequence(s, t) ==
    CASE s = <<>> -> TRUE
      [] t = <<>> -> FALSE
      [] Head(s) = Head(t) -> IsSubsequence(Tail(s), Tail(t))
      [] OTHER -> IsSubsequence(s, Tail(t))

\* a merge of the bodies at i < j keeps body i, with its id and metadata, and
\* removes body j; nothing else changes
LowerIndexSurvives(bs, i, j) ==
    apply_inelastic_merge(bs, i, j) # bs =>
        /\ apply_inelastic_merge(bs, i, j)[i].alive
        /\ apply_inelastic_merge(bs, i, j)[i].id = bs[i].id
        /\ apply_inelastic_merge(bs, i, j)[i].metadata = bs[i].metadata
        /\ apply_inelastic_merge(bs, i, j)[j] = [bs[j] EXCEPT !.alive = FALSE]
        /\ \A k \in DOMAIN bs \ {i, j} : apply_inelastic_merge(bs, i, j)[k] = bs[k]

\* C20: in InelasticMerge mode the stored id sequence after each tick is an
\* order-preserving subsequence of the one before the tick and holds no body
\* with alive = false, bodies the host had marked not alive included; when the
\* bodies at indices i < j merge, body i survives with its own id and metadata
\* and body j is the one removed.
C20_MergeOrder ==
    (last.op = "step" /\ pre.config.collision_mode = "InelasticMerge") =>
        \A k \in DOMAIN last.trace :
            /\ IsSubsequence(IdsOf(last.trace[k].resolved), IdsOf(last.trace[k].start))
            /\ \A r \in DOMAIN last.trace[k].resolved :
                  /\ last.trace[k].resolved[r].alive
                  /\ \E s \in DOMAIN last.trace[k].start :
                        /\ last.trace[k].start[s].alive
                        /\ last.trace[k].start[s].id = last.trace[k].resolved[r].id
                        /\ last.trace[k].start[s].metadata
                               = last.trace[k].resolved[r].metadata
            /\ \A i, j \in DOMAIN last.trace[k].integrated :
                  i < j => LowerIndexSurvives(last.trace[k].integrated, i, j)

\* a tick that merged the second and the third body into the first, which
\* kept its id and its metadata
C20_Witness ==
    /\ last.op = "step" /\ pre.config.collision_mode = "InelasticMerge"
    /\ \E k \in DOMAIN last.trace :
          /\ IdsOf(last.trace[k].start) = <<IdA, IdB, IdC>>
          /\ IdsOf(last.trace[k].resolved) = <<IdA>>
          /\ last.trace[k].resolved[1].metadata = Some("star")
          /\ last.trace[k].start[2].metadata = None

\* what a step may not change of a body in Ignore and Elastic mode
SameIdentity(a, b) ==
    /\ a.id = b.id
    /\ a.alive = b.alive
    /\ a.mass = b.mass
    /\ a.radius = b.radius
    /\ a.metadata = b.metadata

\* C21: in Ignore and Elastic mode a successful step(n) leaves the number of
\* stored bodies, their id sequence and every body's alive flag, mass, radius
\* and metadata as they were, and merged_events = 0; in Ignore mode
\* collision_events = 0 too and the collision stage changes no position or
\* velocity even when bodies overlap; a body with alive = false keeps its
\* position and velocity through the whole step.
C21_FrameOfStep ==
    (/\ last.op = "step" /\ last.outcome = "ok"
     /\ pre.config.collision_mode \in {"Ignore", "Elastic"}) =>
        /\ Len(bodies) = Len(pre.bodies)
        /\ \A k \in DOMAIN bodies : SameIdentity(bodies[k], pre.bodies[k])
        /\ last.summary.merged_events = 0
        /\ pre.config.collision_mode = "Ignore" =>
              /\ last.summary.collision_events = 0
              /\ \A t \in DOMAIN last.trace :
                    last.trace[t].resolved = last.trace[t].integrated
        /\ \A k \in DOMAIN bodies :
              ~pre.bodies[k].alive =>
                  /\ bodies[k].position = pre.bodies[k].position
                  /\ bodies[k].velocity = pre.bodies[k].velocity

\* a step of two ticks in Elastic mode that counted a collision and moved bodies
C21_Witness ==
    /\ last.op = "step" /\ last.outcome = "ok" /\ last.arg = 2
    /\ pre.config.collision_mode = "Elastic"
    /\ last.summary.collision_events > 0
    /\ bodies # pre.bodies

\* the pair i < j as the inner loop of resolve_collisions measures it
PairDelta(bs, i, j) == VSub[bs[j].position, bs[i].position]
PairDistance(bs, i, j) == norm[PairDelta(bs, i, j)]
PairReach(bs, i, j) == FAdd[bs[i].radius, bs[j].radius]

\* n * (0.5 * overlap + 1e-9), with n the unit vector from i to j, or (1, 0)
\* at distance 0, and overlap = r_i + r_j - distance
PairPush(bs, i, j) ==
    VMul[IF FGt[PairDistance(bs, i, j), 0]
         THEN VDiv[PairDelta(bs, i, j), PairDistance(bs, i, j)]
         ELSE Vec(One, 0),
         FAdd[FMul[One \div 2, FSub[PairReach(bs, i, j), PairDistance(bs, i, j)]], Nano]]

\* the bodies after the elastic resolution of the pair i < j
ElasticAfter(bs, i, j) ==
    apply_elastic_collision(bs, i, j, PairDelta(bs, i, j), PairDistance(bs, i, j),
                            PairReach(bs, i, j))

\* the pair i < j is pushed apart by PairPush, each body by the same length
PushedApart(bs, i, j) ==
    /\ ElasticAfter(bs, i, j)[i].position = VSub[bs[i].position, PairPush(bs, i, j)]
    /\ ElasticAfter(bs, i, j)[j].position = VAdd[bs[j].position, PairPush(bs, i, j)]

\* alive bodies i < j within the sum of their radii
Colliding(bs, i, j) ==
    /\ i < j /\ bs[i].alive /\ bs[j].alive
    /\ FLe[PairDistance(bs, i, j), PairReach(bs, i, j)]

\* C22: in Elastic mode every pair of alive bodies i < j found colliding, the
\* touching pair with distance = r_i + r_j included, is moved apart: body i by
\* -n * (0.5 * overlap + 1e-9) and body j by +n * (0.5 * overlap + 1e-9),
\* whatever the masses.
C22_Depenetration ==
    (last.op = "step" /\ pre.config.collision_mode = "Elastic") =>
        \A t \in DOMAIN last.trace :
            \A i, j \in DOMAIN last.trace[t].integrated :
                Colliding(last.trace[t].integrated, i, j) =>
                    PushedApart(last.trace[t].integrated, i, j)

\* C22, amended: a colliding pair is moved apart as stated when it overlaps,
\* distance < r_i + r_j; a pair that touches, distance = r_i + r_j, keeps its
\* positions.
C22_DepenetrationOfOverlap ==
    (last.op = "step" /\ pre.config.collision_mode = "Elastic") =>
        \A t \in DOMAIN last.trace :
            \A i, j \in DOMAIN last.trace[t].integrated :
                Colliding(last.trace[t].integrated, i, j) =>
                    IF PairDistance(last.trace[t].integrated, i, j)
                           = PairReach(last.trace[t].integrated, i, j)
                    THEN /\ ElasticAfter(last.trace[t].integrated, i, j)[i].position
                              = last.trace[t].integrated[i].position
                         /\ ElasticAfter(last.trace[t].integrated, i, j)[j].position
                              = last.trace[t].integrated[j].position
                    ELSE PushedApart(last.trace[t].integrated, i, j)

\* an Elastic tick that found two overlapping bodies of unequal mass and moved
\* both
C22_Witness ==
    /\ last.op = "step" /\ last.outcome = "ok"
    /\ pre.config.collision_mode = "Elastic"
    /\ \E t \in DOMAIN last.trace :
          /\ Len(last.trace[t].integrated) >= 2
          /\ Colliding(last.trace[t].integrated, 1, 2)
          /\ PairDistance(last.trace[t].integrated, 1, 2)
                 < PairReach(last.trace[t].integrated, 1, 2)
          /\ last.trace[t].integrated[1].mass # last.trace[t].integrated[2].mass
          /\ ElasticAfter(last.trace[t].integrated, 1, 2)[1].position
                 # last.trace[t].integrated[1].position
          /\ last.trace[t].resolved[2].position # last.trace[t].integrated[2].position

\* the run of step(ticks) on a new engine over the alive bodies of eng alone
RunOfAliveOnly(eng, ticks) ==
    StepRun(with_bodies(eng.config, AliveOnly(eng.bodies)), ticks, FALSE)

\* the counters of two summaries that bodies not alive may not change
SameCounters(a, b) ==
    /\ a.ticks_applied = b.ticks_applied
    /\ a.pairwise_ticks = b.pairwise_ticks
    /\ a.barnes_hut_ticks = b.barnes_hut_ticks
    /\ a.collision_events = b.collision_events
    /\ a.merged_events = b.merged_events

\* C23: two engines with the same valid config whose body lists differ only in
\* that one also holds valid bodies with alive = false give, for the same
\* successful step(n), the same alive bodies in the same order (position,
\* velocity, mass), the same tick and sim_time and the same pairwise_ticks,
\* barnes_hut_ticks, collision_events and merged_events, for every integrator,
\* solver, dt policy and collision mode.
C23_DeadInert ==
    (last.op = "step" /\ last.outcome = "ok") =>
        /\ AliveOnly(bodies) = AliveOnly(replica.bodies)
        /\ tick = replica.tick
        /\ sim_time = replica.sim_time
        /\ RunOfAliveOnly(pre, last.arg).outcome = "ok"
        /\ RunOfAliveOnly(pre, last.arg).engine.bodies = replica.bodies
        /\ SameCounters(last.summary, RunOfAliveOnly(pre, last.arg).summary)

\* two ticks under Auto, beside two bodies that are not alive, that merged
\* bodies and used both solvers
C23_Witness ==
    /\ last.op = "step" /\ last.outcome = "ok" /\ last.arg = 2
    /\ Len(pre.bodies) = AliveCount(pre.bodies) + 2
    /\ last.summary.merged_events > 0
    /\ last.summary.barnes_hut_ticks > 0
    /\ last.summary.pairwise_ticks > 0
    /\ Len(replica.bodies) > 0

\* C24: whenever apply_edit returns an error (InvalidBody, DuplicateBodyId or
\* BodyNotFound), for Create, Update and Delete, the body list with every
\* field of every body, the tick, the sim_time and the config are what they
\* were before the call.
C24_EditAtomic ==
    (last.op = "apply_edit" /\ last.outcome # "ok") => Self = pre

\* C25: for every snapshot S that snapshot() returned in a reachable state, a
\* later restore_snapshot(S) on that engine, after any steps and edits in
\* between and with the config not changed, returns Ok, and the snapshot taken
\* right afterwards equals S; the engine is then the one S was taken of, so
\* the same steps replayed give the same snapshots again.
C25_SnapshotRoundTrip ==
    (last.op = "restore_snapshot" /\ last.arg = snapshot(replica)) =>
        /\ last.outcome = "ok"
        /\ snapshot(Self) = last.arg
        /\ Self = replica

\* step(n) on the engine as it was built, in a build without overflow checks
SingleCall(n) == step(replica, n, 0, FALSE)

\* the counters of the summaries a and b add up to those of c
CountersAddUp(a, b, c) ==
    /\ a.ticks_applied + b.ticks_applied = c.ticks_applied
    /\ a.collision_events + b.collision_events = c.collision_events
    /\ a.merged_events + b.merged_events = c.merged_events
    /\ a.pairwise_ticks + b.pairwise_ticks = c.pairwise_ticks
    /\ a.barnes_hut_ticks + b.barnes_hut_ticks = c.barnes_hut_ticks

\* the first two calls on the engine were step(a) and step(b), both Ok; a is
\* the tick the first call left
TwoStepsDone ==
    /\ ops = 2
    /\ last.op = "step" /\ last.outcome = "ok"
    /\ SingleCall(pre.tick).outcome = "ok"
    /\ SingleCall(pre.tick).engine = pre

\* C26: from the same starting state, step(a) followed by step(b), both
\* successful, leaves the tick, the sim_time and the bodies that one successful
\* step(a + b) leaves, and the ticks_applied, collision_events, merged_events,
\* pairwise_ticks and barnes_hut_ticks of the two summaries add up to those of
\* the single call.
C26_Batching ==
    TwoStepsDone =>
        /\ SingleCall(pre.tick + last.arg).outcome = "ok"
        /\ SingleCall(pre.tick + last.arg).engine = Self
        /\ CountersAddUp(SingleCall(pre.tick).summary, last.summary,
                         SingleCall(pre.tick + last.arg).summary)

\* step(2) and step(2) that merged bodies in the first call and moved them in
\* the second
C26_Witness ==
    /\ TwoStepsDone
    /\ pre.tick = 2 /\ last.arg = 2 /\ tick = 4
    /\ SingleCall(2).summary.merged_events > 0
    /\ bodies # pre.bodies

\* the tree barnes_hut_accelerations_from_positions builds over the bodies bs
\* where they stand
TreeOver(bs) ==
    build_quadtree(PositionsOf(bs), AliveIndices(bs),
                   Collect([k \in 1..Len(bs) |-> bs[k].mass]))

RECURSIVE SelfCounted(_, _, _, _, _)
\* node is a node body_index was inserted through; the walk of
\* accumulate_force_from_node for body_index adds the mass of such a node, this
\* one or one below it
SelfCounted(node, body_index, body_position, epsilon2, theta) ==
    LET dist_sq == FAdd[norm_squared[VSub[node.com, body_position]], epsilon2]
        size == FMul[node.half_size, 2 * One]
        slot == child_index(node, body_position) + 1
    IN  CASE node.count = 0 \/ FLe[node.mass, 0] -> FALSE
          [] node.count = 1 /\ node.body_index = Some(body_index) -> FALSE
          [] FLe[dist_sq, 0] -> FALSE
          [] is_leaf(node) \/ FLt[FDiv[size, FSqrt[dist_sq]], theta] -> TRUE
          [] OTHER -> /\ IsSome(node.children[slot])
                      /\ SelfCounted(Unwrap(node.children[slot]), body_index,
                                     body_position, epsilon2, theta)

\* the walk over the tree of bs for the alive body at k uses a node that holds k
SelfForceAt(bs, k, cfg) ==
    /\ bs[k].alive
    /\ SelfCounted(Unwrap(TreeOver(bs)), k, bs[k].position,
                   FMul[cfg.softening_epsilon, cfg.softening_epsilon],
                   cfg.barnes_hut_theta)

\* C27: for every alive body i and every opening angle in (0, 2], each tree
\* node whose mass is added to the acceleration of body i is a node that does
\* not contain body i.
C27_NoSelfForce ==
    last.op = "step" =>
        \A t \in DOMAIN last.trace :
            last.trace[t].used_barnes_hut =>
                \A k \in DOMAIN last.trace[t].start :
                    ~SelfForceAt(last.trace[t].start, k, pre.config)

RECURSIVE CeilLog2(_)
\* the least d with 2^d >= n
CeilLog2(n) == IF n <= 1 THEN 0 ELSE 1 + CeilLog2((n + 1) \div 2)

\* the number of halvings that take a cell from 1 to the 1e-6 of min_half: 20
\* for the f64 literals, and this many on the grid
MaxLevels == CeilLog2(One \div Micro)

\* the deeper of two depths
Deeper(a, b) == IF a >= b THEN a ELSE b

RECURSIVE Depth(_)
\* the number of levels the deepest node lies below node
Depth(node) ==
    IF is_leaf(node) THEN 0
    ELSE 1 + Deeper(Deeper(Depth(Unwrap(node.children[1])),
                           Depth(Unwrap(node.children[2]))),
                    Deeper(Depth(Unwrap(node.children[3])),
                           Depth(Unwrap(node.children[4]))))

RECURSIVE SubdividedAbove(_, _)
\* every node at or below node that has children is larger than min_half and
\* holds more than one body
SubdividedAbove(node, min_half) ==
    \/ is_leaf(node)
    \/ /\ FGt[node.half_size, min_half]
       /\ node.count >= 2
       /\ \A k \in 1..4 : SubdividedAbove(Unwrap(node.children[k]), min_half)

\* min_half as build_quadtree derives it from the root cell
MinHalfOf(root) == F64Max[FMul[root.half_size, Micro], Nano]

\* two alive bodies of bs stand more than 1e-9 apart
SomeApart(bs) ==
    \E i, j \in DOMAIN bs :
        /\ bs[i].alive /\ bs[j].alive
        /\ FGt[norm_squared[VSub[bs[i].position, bs[j].position]], SameSpotSq]

\* the tree over the alive bodies of bs is built as C28 says
BuiltAsSaid(bs, root) ==
    /\ SubdividedAbove(root, MinHalfOf(root))
    /\ ~is_leaf(root) => SomeApart(bs)
    /\ Depth(root) <= MaxLevels
    /\ root.count = AliveCount(bs)
    /\ root.mass = AliveMassFrom(bs, 1)

\* C28: the quadtree is built for every set of alive bodies with finite
\* positions, bodies at identical or nearly identical positions included: a
\* single-body leaf is subdivided only when its half_size exceeds min_half and
\* the two bodies are more than 1e-9 apart, so no node lies more than MaxLevels
\* levels below the root, and afterwards root.count is the number of alive
\* bodies and root.mass the sum of their masses.
C28_TreeBuilt ==
    last.op = "step" =>
        \A t \in DOMAIN last.trace :
            last.trace[t].used_barnes_hut =>
                /\ IsSome(TreeOver(last.trace[t].start))
                /\ BuiltAsSaid(last.trace[t].start,
                               Unwrap(TreeOver(last.trace[t].start)))

\* a tree over two bodies at different positions that reached min_half before
\* it separated them, and so holds them in one leaf some levels down
C28_Witness ==
    /\ last.op = "step" /\ Len(last.trace) >= 1
    /\ last.trace[1].used_barnes_hut
    /\ pre.bodies = CloseBodies
    /\ Depth(Unwrap(TreeOver(last.trace[1].start))) >= 3
    /\ BuiltAsSaid(last.trace[1].start, Unwrap(TreeOver(last.trace[1].start)))

\* the threads between the fetch_add and the registration of a gs_initialize
InFlight == {t \in Threads : threads[t].pc = "fetched"}

\* the handles successful gs_initialize calls have returned
Issued == {issued[k] : k \in DOMAIN issued}

\* C29: under any interleaving of concurrent gs_initialize and gs_dispose
\* calls, every successful gs_initialize returns a handle that no earlier or
\* concurrent gs_initialize returned, a disposed handle is never issued again,
\* and each registered engine is reachable only under its own handle, so one
\* initialize never replaces another engine in the registry.
C29_HandlesUnique ==
    /\ \A i, j \in DOMAIN issued : i # j => issued[i] # issued[j]
    /\ \A t \in InFlight :
          /\ threads[t].handle \notin Issued
          /\ threads[t].handle \notin disposed
          /\ threads[t].handle \notin DOMAIN ENGINES
          /\ \A u \in InFlight \ {t} : threads[u].handle # threads[t].handle
    /\ DOMAIN ENGINES \cup disposed = Issued
    /\ DOMAIN ENGINES \cap disposed = {}

\* two gs_initialize calls ran at the same time and registered in the reverse
\* order of their handles, and the first handle has been disposed of since
C29_Witness ==
    /\ issued = <<2, 1>>
    /\ disposed = {1}
    /\ DOMAIN ENGINES = {2}
    /\ \A t \in Threads : threads[t].pc = "returned"

\* thread t returns from a call under the guard in this step
ReturnsNow(t) == threads[t].pc = "locked" /\ threads'[t].pc = "returned"

\* what the call thread t returns from left and returned is what one whole call
\* leaves and returns
WholeCall(t) ==
    /\ \A u \in Threads \ {t} : threads[u].pc # "locked"
    /\ (threads[t].call = "gs_step" /\ threads[t].ticks = 1 /\ threads'[t].ok) =>
          /\ threads[t].handle \in DOMAIN ENGINES
          /\ ENGINES'[threads[t].handle].tick
                = (ENGINES[threads[t].handle].tick + 1) % TickModulus
    /\ threads'[t].state # None =>
          /\ threads[t].handle \in DOMAIN ENGINES'
          /\ Unwrap(threads'[t].state) = get_state(ENGINES'[threads[t].handle])

\* a call other than gs_dispose changes no engine but the one of its handle
OthersKept(t) ==
    threads[t].call # "gs_dispose" =>
        /\ DOMAIN ENGINES' = DOMAIN ENGINES
        /\ \A h \in DOMAIN ENGINES \ {threads[t].handle} : ENGINES'[h] = ENGINES[h]

\* C30: calls on one engine are serialized: when several threads call gs_step,
\* gs_apply_edit, gs_set_config, gs_restore_snapshot or gs_get_state on the
\* same handle at the same time, each call runs on the engine without
\* interleaving with another, so every successful gs_step(h, 1) advances the
\* tick by one, k of them by k, and every returned state is the state of the
\* engine between two whole calls.
C30_Serialized ==
    [][\A t \in Threads : ReturnsNow(t) => WholeCall(t) /\ OthersKept(t)]_vars

\* two threads called gs_step(h, 1) on one engine at the same time; both
\* returned Ok, one with the state at tick 1 and one with the state at tick 2
C30_Witness ==
    /\ \A t \in Threads :
          /\ threads[t].pc = "returned" /\ threads[t].call = "gs_step"
          /\ threads[t].ticks = 1 /\ threads[t].ok
          /\ threads[t].handle = 1
    /\ 1 \in DOMAIN ENGINES /\ ENGINES[1].tick = 2
    /\ {Unwrap(threads[t].state).tick : t \in Threads} = {1, 2}

====
